---- MODULE Spec2Model ----
(***************************************************************************)
(* Session manager of the WebUntis API wrapper (WebUntis.js and its Apps   *)
(* Script twin WebUntis.gs): the WebUntisAPI instance with its session     *)
(* fields, the JSON-RPC / REST transport, and the process-wide cached      *)
(* instance managed by getWebUntisApiInstance / clearWebUntisApiInstance.  *)
(*                                                                         *)
(* Every handler of the source is an operator that maps the receiver (or   *)
(* the whole world of instances and globals) and the upstream responses to *)
(* a result record: the updated receiver/world, whether an Error was       *)
(* thrown, the returned value and the list of requests it handed to the    *)
(* transport.  The actions apply these operators to inputs drawn from      *)
(* small sets and record the call in lastOp.                               *)
(***************************************************************************)
EXTENDS Integers, Sequences, FiniteSets, TLC

\* ------------------------------------------------------------------------
\* JavaScript values.  Strings are sequences of characters; null and
\* undefined are distinct values.
\* ------------------------------------------------------------------------
Null == [t |-> "null"]
Undefined == [t |-> "undefined"]
Str(chars) == [t |-> "string", v |-> chars]

Num(n) == [t |-> "number", v |-> n]
Bool(b) == [t |-> "boolean", v |-> b]
Arr(elems) == [t |-> "array", v |-> elems]

\* JavaScript truthiness (null, undefined, "" and 0 are falsy; objects truthy)
Truthy(x) ==
    \/ x.t \in {"object", "array"}
    \/ x.t = "string" /\ x.v # <<>>
    \/ x.t = "number" /\ x.v # 0
    \/ x.t = "boolean" /\ x.v

WhiteSpace == {" ", "\t", "\n"}

RECURSIVE TrimStart(_)
TrimStart(s) ==
    IF s = <<>> THEN s
    ELSE IF Head(s) \in WhiteSpace THEN TrimStart(Tail(s)) ELSE s

RECURSIVE TrimEnd(_)
TrimEnd(s) ==
    IF s = <<>> THEN s
    ELSE IF s[Len(s)] \in WhiteSpace THEN TrimEnd(SubSeq(s, 1, Len(s) - 1)) ELSE s

\* String.prototype.trim
trim(s) == TrimEnd(TrimStart(s))

\* ------------------------------------------------------------------------
\* Configurations handed in by callers
\* ------------------------------------------------------------------------
DefaultServer == Str(<<"<", "Y", "O", "U", "R", "_", "W", "E", "B", "U", "N", "T", "I", "S", "_", "S", "E", "R", "V", "E", "R", ">">>)

BaseConfig ==
    [school |-> Str(<<"s", "1">>), username |-> Str(<<"u", "1">>),
     password |-> Str(<<"p", "1">>), server |-> Str(<<"h", "1">>),
     resourceId |-> Str(<<"r", "1">>)]

\* the base configuration and every configuration that differs from it in
\* exactly one field (server also absent)
Configs ==
    {BaseConfig,
     [BaseConfig EXCEPT !.school = Str(<<"s", "2">>)],
     [BaseConfig EXCEPT !.username = Str(<<"u", "2">>)],
     [BaseConfig EXCEPT !.password = Str(<<"p", "2">>)],
     [BaseConfig EXCEPT !.server = Str(<<"h", "2">>)],
     [BaseConfig EXCEPT !.server = Undefined]}

\* a falsy config argument (getWebUntisApiInstance() / getAPIInstance(null))
NoConfig == [t |-> "null"]
IsConfig(c) == "school" \in DOMAIN c

ConfigArgs == Configs \cup {NoConfig}

\* ------------------------------------------------------------------------
\* State
\* ------------------------------------------------------------------------
\* The heap holds the WebUntisAPI objects that are still reachable: the one
\* the calling script keeps in its variable api and the one the module keeps
\* in globalAPIInstance (they may be the same object).  An object neither of
\* them refers to is garbage and its slot is free again.
VARIABLES
    env,                \* host environment: which fetch capability exists
    insts,              \* heap: slot -> WebUntisAPI object or NoInst
    api,                \* the script's variable api: a slot, 0 for none
    globalAPIInstance,  \* the module's cached instance: a slot, 0 for null
    globalConfigHash,   \* fingerprint of the cached instance's config, or Null
    lastOp,             \* the call made by the last step and its outcome
    calls               \* getWebUntisApiInstance calls in flight: caller -> position

vars == <<env, insts, api, globalAPIInstance, globalConfigHash, lastOp, calls>>

\* the callers that may have a getWebUntisApiInstance call in flight, and a
\* caller that has none
Callers == {1, 2}
NoCall == [pc |-> "idle", target |-> 0, result |-> 0]

Slots == {1, 2}
NoInst == [t |-> "free"]

\* lowest slot that the reference `kept` does not occupy
FreeSlot(kept) == CHOOSE s \in Slots : s # kept /\ \A u \in Slots : u # kept => s <= u

\* drop the objects that neither reference reaches
Collect(heap, ref1, ref2) == [s \in Slots |-> IF s \in {ref1, ref2} THEN heap[s] ELSE NoInst]

Envs == {"gas", "node", "none"}

\* ------------------------------------------------------------------------
\* Upstream responses (inputs)
\* ------------------------------------------------------------------------
ResultA == [t |-> "object", sessionId |-> Str(<<"A">>), personId |-> Num(7), personType |-> Num(5)]
\* a result object without a sessionId member
ResultNoSid == [t |-> "object", sessionId |-> Undefined, personId |-> Num(7), personType |-> Num(5)]

\* parsed JSON-RPC reply {error?, result?}
RpcObject(hasError, result) == [json |-> "object", hasError |-> hasError, result |-> result]
UnparsableBody == [json |-> "bad"]
JsonNullBody == [json |-> "null"]

RpcBodies ==
    {UnparsableBody, JsonNullBody,
     RpcObject(FALSE, Undefined), RpcObject(FALSE, Null),
     RpcObject(TRUE, Undefined),
     RpcObject(FALSE, ResultA), RpcObject(FALSE, ResultNoSid)}

TransportRaise == [kind |-> "raise"]
Http(status, body) == [kind |-> "http", status |-> status, body |-> body]

\* what the upstream may answer to a JSON-RPC POST
RpcResponses ==
    {TransportRaise, Http(500, UnparsableBody)}
      \cup {Http(200, b) : b \in RpcBodies}

TokenTexts == {<<>>, <<" ", "\n">>, <<"T">>, <<" ", "T", "\n">>}

\* what the upstream may answer to GET /token/new
TokenResponses ==
    {TransportRaise, Http(403, [text |-> <<>>]), Http(500, [text |-> <<>>])}
      \cup {Http(200, [text |-> x]) : x \in TokenTexts}

\* the answers to the two requests of one authenticate call; the answer to
\* the token request is drawn only when the first answer carries a result
AuthResponses ==
    {p \in RpcResponses \X TokenResponses :
        \/ p[2] = TransportRaise
        \/ p[1].kind = "http" /\ p[1].body.json = "object" /\ p[1].body.result.t = "object"}

\* bodies of the REST endpoints: unparsable, JSON null, or a JSON object
JsonObject(obj) == [json |-> "object", obj |-> obj]

Homework(id, lessonId, dueDate, completed, text, subject) ==
    [t |-> "object", id |-> Num(id), lessonId |-> Num(lessonId), dueDate |-> Num(dueDate),
     completed |-> completed, text |-> text, subject |-> subject]
Lesson(id, subject) == [t |-> "object", id |-> Num(id), subject |-> subject]

\* {homeworks, lessons}, bare or inside {data: ...}
HomeworkData(data, homeworks, lessons) ==
    [t |-> "object", data |-> data, homeworks |-> homeworks, lessons |-> lessons]

HomeworkPayload ==
    HomeworkData(Undefined,
                 Arr(<<Homework(1, 10, 20250203, Bool(FALSE), Str(<<"a">>), Undefined),
                       Homework(2, 11, 20250131, Bool(TRUE), Undefined, Str(<<"E">>))>>),
                 Arr(<<Lesson(10, Str(<<"M">>))>>))

HomeworkResponses ==
    {TransportRaise, Http(500, UnparsableBody), Http(200, UnparsableBody),
     Http(200, JsonNullBody),
     Http(200, JsonObject(HomeworkData(HomeworkPayload, Undefined, Undefined))),
     Http(200, JsonObject(HomeworkPayload)),
     Http(200, JsonObject(HomeworkData(Undefined, Undefined, Undefined)))}

TimetableDay(date) == [t |-> "object", date |-> date, gridEntries |-> Arr(<<>>)]
\* a day with its grid entries, and the parts of a grid entry
GridDay(date, gridEntries) == [t |-> "object", date |-> date, gridEntries |-> gridEntries]
Duration(start, end) == [t |-> "object", start |-> start, end |-> end]
Resource(displayName, longName) ==
    [t |-> "object", displayName |-> displayName, longName |-> longName]
Slot(current) == [t |-> "object", current |-> current]
GridEntry(id, duration, type, status, position1, position2, position3, icons, notesAll) ==
    [t |-> "object", ids |-> Arr(<<Num(id)>>), duration |-> duration, type |-> type,
     status |-> status, position1 |-> position1, position2 |-> position2,
     position3 |-> position3, icons |-> icons, notesAll |-> notesAll,
     lessonInfo |-> Undefined, texts |-> Undefined]
TimetableData(days) == [t |-> "object", days |-> days]

TimetableResponses ==
    {TransportRaise, Http(500, UnparsableBody), Http(200, JsonNullBody),
     Http(200, JsonObject(TimetableData(Undefined))),
     Http(200, JsonObject(TimetableData(Arr(<<>>)))),
     Http(200, JsonObject(TimetableData(Arr(<<TimetableDay(Str(<<"2", "0", "2", "5", "-", "0", "1", "-", "2", "9">>))>>))))}

\* ------------------------------------------------------------------------
\* Results of a call: normal return or thrown Error, plus the requests the
\* call handed to the transport, in order
\* ------------------------------------------------------------------------
NoError == [msg |-> "", status |-> 0]
Err(msg, status) == [msg |-> msg, status |-> status]

NoHeader == [t |-> "absent"]

\* one request handed to makeFetch: its endpoint, the object that issued it,
\* the query parameters its URL carries, its Cookie and Authorization headers;
\* net tells whether a transport existed to carry it
Request(kind, self, params, cookie, authorization) ==
    [req |-> kind, inst |-> self.id, params |-> params, cookie |-> cookie,
     authorization |-> authorization, net |-> env # "none"]

\* ------------------------------------------------------------------------
\* class WebUntisAPI
\* ------------------------------------------------------------------------
WebUntisAPI(config, id) ==
    [id |-> id,
     school |-> config.school,
     username |-> config.username,
     password |-> config.password,
     server |-> IF Truthy(config.server) THEN config.server ELSE DefaultServer,
     sessionId |-> Null,
     personId |-> Null,
     personType |-> Null,
     bearerToken |-> Null,
     config |-> config]

\* a transport wrapper that takes only status 200 for ok
makeFetch_only200(resp) ==
    IF env = "none"
    THEN [thrown |-> TRUE,
          error |-> Err("No fetch implementation available. This environment is not supported.", 0)]
    ELSE IF resp.kind = "raise"
    THEN [thrown |-> TRUE, error |-> Err("transport error", 0)]
    ELSE [thrown |-> FALSE, error |-> NoError,
          response |-> [ok |-> resp.status = 200,
                        status |-> resp.status,
                        body |-> resp.body]]

makeFetch(resp) ==
    IF env = "none"
    THEN [thrown |-> TRUE, error |-> Err("No fetch implementation available. This environment is not supported.", 0)]
    ELSE IF resp.kind = "raise"
    THEN [thrown |-> TRUE, error |-> Err("transport error", 0)]
    ELSE [thrown |-> FALSE, error |-> NoError,
          response |-> [ok |-> resp.status >= 200 /\ resp.status < 300,
                        status |-> resp.status,
                        body |-> resp.body]]

\* what a call hands back: the receiver as the call left it, the Error it
\* threw or the value it returned, and the requests it sent
Thrown(self, error, sent) ==
    [self |-> self, thrown |-> TRUE, error |-> error, value |-> Undefined, sent |-> sent]
Returned(self, value, sent) ==
    [self |-> self, thrown |-> FALSE, error |-> NoError, value |-> value, sent |-> sent]

\* makeRequest once makeFetch has come back with f
makeRequestAnswered(self, sent, f) ==
    IF f.thrown THEN Thrown(self, f.error, sent)
    ELSE IF ~f.response.ok
    THEN Thrown(self, Err("HTTP error! status", f.response.status), sent)
    ELSE IF f.response.body.json = "bad" THEN Thrown(self, Err("SyntaxError", 0), sent)
    ELSE IF f.response.body.json = "null" THEN Thrown(self, Err("TypeError", 0), sent)
    ELSE IF f.response.body.hasError THEN Thrown(self, Err("WebUntis API error", 0), sent)
    ELSE Returned(self, f.response.body, sent)

\* makeRequest: one POST, with the Cookie header when a sessionId is there
makeRequest(self, method, resp) ==
    makeRequestAnswered(self,
                        <<Request(method, self, <<self.school>>,
                                  IF Truthy(self.sessionId) THEN self.sessionId ELSE NoHeader,
                                  NoHeader)>>,
                        makeFetch(resp))

\* getBearerToken once makeFetch has come back with f
getBearerTokenAnswered(self, sent, f) ==
    IF f.thrown THEN Thrown(self, f.error, sent)
    ELSE IF f.response.ok
    THEN IF trim(f.response.body.text) # <<>>
         THEN Returned([self EXCEPT !.bearerToken = Str(trim(f.response.body.text))], TRUE, sent)
         ELSE Returned(self, FALSE, sent)
    ELSE IF f.response.status = 403 THEN Returned(self, FALSE, sent)
    ELSE Returned(self, FALSE, sent)

\* try block of getBearerToken
getBearerTokenTry(self, tok) ==
    getBearerTokenAnswered(self, <<Request("token", self, <<self.school>>, self.sessionId, NoHeader)>>,
                           makeFetch(tok))

\* catch (error) { ...; return false; }
CatchReturnFalse(t) == IF t.thrown THEN Returned(t.self, FALSE, t.sent) ELSE t

\* a getBearerToken that lets the Error through
getBearerToken_noCatch(self, tok) == getBearerTokenTry(self, tok)

getBearerToken(self, tok) == CatchReturnFalse(getBearerTokenTry(self, tok))

\* authenticate once the session fields are stored and getBearerToken has
\* come back with b
authenticateStored(sent, b) ==
    IF b.thrown THEN Thrown(b.self, b.error, sent \o b.sent)
    ELSE Returned(b.self, TRUE, sent \o b.sent)

\* an authenticate that stores the session fields before it looks for a result
authenticateAnswered_storesFirst(self, r, tok) ==
    IF r.thrown THEN Thrown(self, r.error, r.sent)
    ELSE IF Truthy(r.value.result)
    THEN authenticateStored(r.sent,
                            getBearerToken([self EXCEPT !.sessionId = r.value.result.sessionId,
                                                        !.personId = r.value.result.personId,
                                                        !.personType = r.value.result.personType],
                                           tok))
    ELSE Returned([self EXCEPT !.sessionId = Undefined, !.personId = Undefined,
                               !.personType = Undefined], FALSE, r.sent)

\* authenticate once makeRequest has come back with r
authenticateAnswered(self, r, tok) ==
    IF r.thrown THEN Thrown(self, r.error, r.sent)
    ELSE IF Truthy(r.value.result)
    THEN authenticateStored(r.sent,
                            getBearerToken([self EXCEPT !.sessionId = r.value.result.sessionId,
                                                        !.personId = r.value.result.personId,
                                                        !.personType = r.value.result.personType],
                                           tok))
    ELSE Returned(self, FALSE, r.sent)

\* try block of authenticate
authenticateTry(self, rpc, tok) ==
    authenticateAnswered(self, makeRequest(self, "authenticate", rpc), tok)

\* an authenticate that lets the Error through
authenticate_noCatch(self, rpc, tok) == authenticateTry(self, rpc, tok)

authenticate(self, rpc, tok) == CatchReturnFalse(authenticateTry(self, rpc, tok))

\* logout once makeRequest has come back with r
logoutAnswered(self, r) ==
    IF r.thrown THEN Thrown(self, r.error, r.sent)
    ELSE Returned([self EXCEPT !.sessionId = Null, !.personId = Null,
                               !.personType = Null, !.bearerToken = Null], TRUE, r.sent)

\* a logout that sends its request whether or not a sessionId is there
logoutTry_noGuard(self, rpc) == logoutAnswered(self, makeRequest(self, "logout", rpc))

\* try block of logout
logoutTry(self, rpc) ==
    IF ~Truthy(self.sessionId) THEN Returned(self, TRUE, <<>>)
    ELSE logoutAnswered(self, makeRequest(self, "logout", rpc))

logout(self, rpc) == CatchReturnFalse(logoutTry(self, rpc))

\* ------------------------------------------------------------------------
\* Dates: the script's clock, in local time, as calendar dates
\* ------------------------------------------------------------------------
Date(y, m, d) == [y |-> y, m |-> m, d |-> d]

\* days from 1970-01-01 to the date
DaysFromCivil(date) ==
    LET y == IF date.m <= 2 THEN date.y - 1 ELSE date.y
        era == y \div 400
        yoe == y - era * 400
        mp == IF date.m > 2 THEN date.m - 3 ELSE date.m + 9
        doy == (153 * mp + 2) \div 5 + date.d - 1
        doe == yoe * 365 + yoe \div 4 - yoe \div 100 + doy
    IN  era * 146097 + doe - 719468

\* the date that many days after 1970-01-01
CivilFromDays(n) ==
    LET z == n + 719468
        era == z \div 146097
        doe == z - era * 146097
        yoe == (doe - doe \div 1460 + doe \div 36524 - doe \div 146096) \div 365
        doy == doe - (365 * yoe + yoe \div 4 - yoe \div 100)
        mp == (5 * doy + 2) \div 153
        d == doy - (153 * mp + 2) \div 5 + 1
        m == IF mp < 10 THEN mp + 3 ELSE mp - 9
    IN  Date(IF m <= 2 THEN yoe + era * 400 + 1 ELSE yoe + era * 400, m, d)

\* new Date(date.getTime() + n * 24 * 60 * 60 * 1000) and
\* date.setDate(date.getDate() + n), on a clock without a DST change in between
AddDays(date, n) == CivilFromDays(DaysFromCivil(date) + n)

\* date.getDay(): 0 is Sunday; 1970-01-01 was a Thursday
getDay(date) == (DaysFromCivil(date) + 4) % 7

DigitChars == <<"0", "1", "2", "3", "4", "5", "6", "7", "8", "9">>

\* String(n) of a natural number
RECURSIVE NumberToString(_)
NumberToString(n) ==
    IF n < 10 THEN <<DigitChars[n + 1]>>
    ELSE NumberToString(n \div 10) \o <<DigitChars[(n % 10) + 1]>>

RECURSIVE padStart(_, _, _)
padStart(chars, len, fill) ==
    IF Len(chars) >= len THEN chars ELSE padStart(<<fill>> \o chars, len, fill)

\* YYYY-MM-DD
formatDateForAPI(date) ==
    Str(NumberToString(date.y) \o <<"-">> \o padStart(NumberToString(date.m), 2, "0")
        \o <<"-">> \o padStart(NumberToString(date.d), 2, "0"))

\* YYYYMMDD
formatDate(date) ==
    Str(NumberToString(date.y) \o padStart(NumberToString(date.m), 2, "0")
        \o padStart(NumberToString(date.d), 2, "0"))

\* str.substring(from, to) with 0 <= from <= to
substring(chars, from, to) ==
    LET hi == IF to > Len(chars) THEN Len(chars) ELSE to
    IN  IF from >= hi THEN <<>> ELSE SubSeq(chars, from + 1, hi)

\* DD.MM.YYYY of a YYYYMMDD number or string
formatWebUntisDate(date) ==
    IF ~Truthy(date) THEN Str(<<"U", "n", "k", "n", "o", "w", "n", " ", "D", "a", "t", "e">>)
    ELSE LET dateStr == IF date.t = "number" THEN NumberToString(date.v) ELSE date.v
         IN  Str(substring(dateStr, 6, 8) \o <<".">> \o substring(dateStr, 4, 6)
                 \o <<".">> \o substring(dateStr, 0, 4))

\* ------------------------------------------------------------------------
\* class WebUntisAPI: the data-fetch operations
\* ------------------------------------------------------------------------
NotAuthenticated == Err("Not authenticated. Call authenticate() first.", 0)

\* a getHomework that drops the session when the upstream refuses the request
getHomeworkAnswered_dropsSession(self, sent, f) ==
    IF f.thrown THEN Thrown(self, f.error, sent)
    ELSE IF ~f.response.ok
    THEN Thrown([self EXCEPT !.sessionId = Null],
                Err("HTTP error! status", f.response.status), sent)
    ELSE IF f.response.body.json = "bad" THEN Thrown(self, Err("SyntaxError", 0), sent)
    ELSE IF f.response.body.json = "null" THEN Thrown(self, Err("TypeError", 0), sent)
    ELSE Returned(self,
                  IF Truthy(f.response.body.obj.data) THEN f.response.body.obj.data
                  ELSE f.response.body.obj,
                  sent)

\* getHomework once makeFetch has come back with f; the catch block re-throws
getHomeworkAnswered(self, sent, f) ==
    IF f.thrown THEN Thrown(self, f.error, sent)
    ELSE IF ~f.response.ok
    THEN Thrown(self, Err("HTTP error! status", f.response.status), sent)
    ELSE IF f.response.body.json = "bad" THEN Thrown(self, Err("SyntaxError", 0), sent)
    ELSE IF f.response.body.json = "null" THEN Thrown(self, Err("TypeError", 0), sent)
    ELSE Returned(self,
                  IF Truthy(f.response.body.obj.data) THEN f.response.body.obj.data
                  ELSE f.response.body.obj,
                  sent)

\* a getHomework without the session check
getHomework_noGuard(self, startDate, endDate, resp) ==
    getHomeworkAnswered(self,
                        <<Request("homework", self, <<startDate, endDate>>, self.sessionId,
                                  IF Truthy(self.bearerToken) THEN self.bearerToken ELSE NoHeader)>>,
                        makeFetch(resp))

\* getHomework: the session check, then one GET with the Cookie header and,
\* when a bearerToken is there, the Authorization header
getHomework(self, startDate, endDate, resp) ==
    IF ~Truthy(self.sessionId) THEN Thrown(self, NotAuthenticated, <<>>)
    ELSE getHomeworkAnswered(self,
                             <<Request("homework", self, <<startDate, endDate>>, self.sessionId,
                                       IF Truthy(self.bearerToken) THEN self.bearerToken
                                       ELSE NoHeader)>>,
                             makeFetch(resp))

getTodaysEvents(self, now, resp) ==
    LET today == formatDate(now)
    IN  getHomework(self, today, today, resp)

\* now.setDate(...) moves now itself: the second setDate starts from the
\* Sunday the first one produced
getWeekEvents(self, now, resp) ==
    LET startOfWeek == AddDays(now, 0 - getDay(now))
        endOfWeek == AddDays(startOfWeek, 0 - getDay(startOfWeek) + 6)
    IN  getHomework(self, formatDate(startOfWeek), formatDate(endOfWeek), resp)

IsDigit(c) == \E i \in 1..10 : DigitChars[i] = c
DigitValue(c) == (CHOOSE i \in 1..10 : DigitChars[i] = c) - 1

\* value of the leading digits of chars, with acc the value read so far
RECURSIVE ParseDigits(_, _)
ParseDigits(chars, acc) ==
    IF chars = <<>> \/ ~IsDigit(Head(chars)) THEN acc
    ELSE ParseDigits(Tail(chars), acc * 10 + DigitValue(Head(chars)))

NaN == [nan |-> TRUE]

\* parseInt of a natural number or of a string; NaN when no digit leads
parseInt(x) ==
    LET chars == IF x.t = "number" THEN NumberToString(x.v)
                 ELSE IF x.t = "string" THEN TrimStart(x.v)
                 ELSE <<"x">>
    IN  IF chars # <<>> /\ IsDigit(Head(chars)) THEN [nan |-> FALSE, v |-> ParseDigits(chars, 0)] ELSE NaN

\* a comparator that also moves a homework in front of one due the same day
DueAfter_orEqual(a, b) ==
    LET dateA == parseInt(a.dueDate)
        dateB == parseInt(b.dueDate)
    IN  ~dateA.nan /\ ~dateB.nan /\ dateA.v - dateB.v >= 0

\* the comparator of the sort: dateA - dateB is positive (a NaN difference
\* counts as 0)
DueAfter(a, b) ==
    LET dateA == parseInt(a.dueDate)
        dateB == parseInt(b.dueDate)
    IN  ~dateA.nan /\ ~dateB.nan /\ dateA.v - dateB.v > 0

\* Array.prototype.sort is stable: hw goes behind every element it does not
\* have to precede
RECURSIVE InsertByDue(_, _)
InsertByDue(sorted, hw) ==
    IF sorted = <<>> THEN <<hw>>
    ELSE IF DueAfter(Head(sorted), hw) THEN <<hw>> \o sorted
    ELSE <<Head(sorted)>> \o InsertByDue(Tail(sorted), hw)

RECURSIVE SortByDue(_)
SortByDue(list) ==
    IF list = <<>> THEN <<>>
    ELSE InsertByDue(SortByDue(SubSeq(list, 1, Len(list) - 1)), list[Len(list)])

\* new Map(lessons.map(l => [l.id, l.subject])).get(id): the last lesson
\* with that id wins
RECURSIVE lessonMapGet(_, _)
lessonMapGet(lessons, id) ==
    IF lessons = <<>> THEN Undefined
    ELSE IF lessons[Len(lessons)].id = id THEN lessons[Len(lessons)].subject
    ELSE lessonMapGet(SubSeq(lessons, 1, Len(lessons) - 1), id)

UnknownSubject == Str(<<"U", "n", "k", "n", "o", "w", "n", " ", "S", "u", "b", "j", "e", "c", "t">>)

\* x || []
OrEmpty(x) == IF Truthy(x) THEN x.v ELSE <<>>

\* a subjectName that passes over the homework's own subject
subjectName_noFallback(hw, lessons) ==
    IF Truthy(lessonMapGet(lessons, hw.lessonId)) THEN lessonMapGet(lessons, hw.lessonId)
    ELSE UnknownSubject

\* lessonMap.get(hw.lessonId) || hw.subject || 'Unknown Subject'
subjectName(hw, lessons) ==
    IF Truthy(lessonMapGet(lessons, hw.lessonId)) THEN lessonMapGet(lessons, hw.lessonId)
    ELSE IF Truthy(hw.subject) THEN hw.subject
    ELSE UnknownSubject

\* a mapping that hands back an empty array for an empty list
WithSubjectNames_emptyArray(filteredHomework, lessons) ==
    Arr([i \in 1..Len(filteredHomework) |->
            [subjectName |-> subjectName(filteredHomework[i], lessons)]
                @@ filteredHomework[i]])

\* null for an empty list, or else every homework with its subjectName added
WithSubjectNames(filteredHomework, lessons) ==
    IF Len(filteredHomework) = 0 THEN Null
    ELSE Arr([i \in 1..Len(filteredHomework) |->
                [subjectName |-> subjectName(filteredHomework[i], lessons)]
                    @@ filteredHomework[i]])

\* getHomeworkList once getHomework has come back with r; the catch block
\* re-throws
getHomeworkListFrom(r, onlyIncomplete) ==
    IF r.thrown THEN r
    ELSE [r EXCEPT !.value =
            WithSubjectNames(
                SortByDue(IF onlyIncomplete
                          THEN SelectSeq(OrEmpty(r.value.homeworks),
                                         LAMBDA hw : ~Truthy(hw.completed))
                          ELSE OrEmpty(r.value.homeworks)),
                OrEmpty(r.value.lessons))]

getHomeworkList(self, now, days, onlyIncomplete, excludeToday, resp) ==
    LET startDate == IF excludeToday THEN AddDays(now, 1) ELSE now
        future == AddDays(startDate, days)
    IN  getHomeworkListFrom(getHomework(self, formatDate(startDate), formatDate(future), resp),
                            onlyIncomplete)

\* the text a template literal makes of a value
TemplateText(x) ==
    IF x.t = "string" THEN x.v
    ELSE IF x.t = "number" THEN NumberToString(x.v)
    ELSE IF x.t = "boolean" THEN (IF x.v THEN <<"t", "r", "u", "e">> ELSE <<"f", "a", "l", "s", "e">>)
    ELSE IF x.t = "null" THEN <<"n", "u", "l", "l">>
    ELSE <<"u", "n", "d", "e", "f", "i", "n", "e", "d">>

RECURSIVE repeat(_, _)
repeat(char, n) == IF n = 0 THEN <<>> ELSE <<char>> \o repeat(char, n - 1)

\* the pictographs of the homework text, one character each
Books == "U+1F4DA"
CheckMark == "U+2705"
Clipboard == "U+1F4CB"
Calendar == "U+1F4C5"
Memo == "U+1F4DD"

\* the lines formatHomework appends for the homework at position index
HomeworkBlock(hw, index) ==
    LET dueDate == formatWebUntisDate(hw.dueDate)
        subject == IF Truthy(hw.subjectName) THEN hw.subjectName ELSE UnknownSubject
        text == IF Truthy(hw.text) THEN hw.text ELSE Str(<<"N", "o", " ", "d", "e", "s", "c", "r", "i", "p", "t", "i", "o", "n">>)
        status == IF Truthy(hw.completed) THEN CheckMark ELSE Clipboard
    IN  NumberToString(index + 1) \o <<".", " ", status, " ">> \o TemplateText(subject) \o <<"\n">>
        \o <<" ", " ", " ", Calendar>> \o <<" ", "D", "u", "e", ":", " ">> \o TemplateText(dueDate) \o <<"\n">>
        \o <<" ", " ", " ", Memo, " ">> \o TemplateText(text) \o <<"\n">>
        \o repeat("-", 40) \o <<"\n">>

RECURSIVE HomeworkBlocks(_, _)
HomeworkBlocks(list, index) ==
    IF index >= Len(list) THEN <<>>
    ELSE HomeworkBlock(list[index + 1], index) \o HomeworkBlocks(list, index + 1)

formatHomework(homeworkList, days, onlyIncomplete) ==
    IF ~Truthy(homeworkList) \/ Len(homeworkList.v) = 0
    THEN Str(<<"N", "o", " ">> \o (IF onlyIncomplete THEN <<"o", "p", "e", "n", " ">> ELSE <<>>)
             \o <<"h", "o", "m", "e", "w", "o", "r", "k", " ", "f", "o", "u", "n", "d", " ", "f", "o", "r", " ", "t", "h", "e", " ", "n", "e", "x", "t", " ">>
             \o NumberToString(days) \o <<" ", "d", "a", "y", "s", ".">>)
    ELSE Str(<<Books>> \o <<" ", "H", "O", "M", "E", "W", "O", "R", "K", " ", "F", "O", "R", " ", "N", "E", "X", "T", " ">> \o NumberToString(days)
             \o <<" ", "D", "A", "Y", "S", " ", "(">> \o NumberToString(Len(homeworkList.v)) \o <<" ">>
             \o (IF onlyIncomplete THEN <<"o", "p", "e", "n", " ">> ELSE <<>>)
             \o <<"a", "s", "s", "i", "g", "n", "m", "e", "n", "t", "s", ")", "\n">>
             \o repeat("=", 60) \o <<"\n", "\n">>
             \o HomeworkBlocks(homeworkList.v, 0))

\* getFormattedHomework once getHomeworkList has come back with r
getFormattedHomeworkFrom(r, days, onlyIncomplete) ==
    IF r.thrown THEN r ELSE [r EXCEPT !.value = formatHomework(r.value, days, onlyIncomplete)]

getFormattedHomework(self, now, days, onlyIncomplete, excludeToday, resp) ==
    getFormattedHomeworkFrom(getHomeworkList(self, now, days, onlyIncomplete, excludeToday, resp),
                             days, onlyIncomplete)

\* haystack.includes(needle)
includes(haystack, needle) ==
    \E i \in 0..(Len(haystack) - Len(needle)) : SubSeq(haystack, i + 1, i + Len(needle)) = needle

NoOpenHomework == <<"N", "o", " ", "o", "p", "e", "n", " ", "h", "o", "m", "e", "w", "o", "r", "k">>

\* sendHomeworkEmail once getFormattedHomework has come back with r: the
\* value is whether GmailApp.sendEmail was called; the catch block re-throws
sendHomeworkEmailFrom(r) ==
    IF r.thrown THEN r
    ELSE [r EXCEPT !.value = ~includes(r.value.v, NoOpenHomework)]

\* sendHomeworkEmail(config, emailAddress, days) on the object self that
\* getAPIInstance(config) hands out
sendHomeworkEmail(self, now, days, resp) ==
    sendHomeworkEmailFrom(getFormattedHomework(self, now, days, TRUE, FALSE, resp))

PlaceholderResourceId == Str(<<"<", "Y", "O", "U", "R", "_", "S", "T", "U", "D", "E", "N", "T", "_", "R", "E", "S", "O", "U", "R", "C", "E", "_", "I", "D", ">">>)

\* getTimetableDataForPeriod once makeFetch has come back with f
getTimetableDataForPeriodAnswered(self, sent, f) ==
    IF f.thrown THEN Thrown(self, f.error, sent)
    ELSE IF ~f.response.ok
    THEN Thrown(self, Err("Timetable HTTP error! status", f.response.status), sent)
    ELSE IF f.response.body.json = "bad" THEN Thrown(self, Err("SyntaxError", 0), sent)
    ELSE IF f.response.body.json = "null" THEN Thrown(self, Err("TypeError", 0), sent)
    ELSE Returned(self, f.response.body.obj, sent)

\* getTimetableDataForPeriod: one GET with the Cookie header and, when a
\* bearerToken is there, the Authorization header
getTimetableDataForPeriod(self, startDate, endDate, studentId, resp) ==
    getTimetableDataForPeriodAnswered(
        self,
        <<Request("timetable", self, <<startDate, endDate, studentId>>, self.sessionId,
                  IF Truthy(self.bearerToken) THEN self.bearerToken ELSE NoHeader)>>,
        makeFetch(resp))

\* startDate instanceof Date
IsDate(x) == "y" \in DOMAIN x

\* getTimetableData once getTimetableDataForPeriod has come back with r: null
\* when there are no days
getTimetableDataFrom(r) ==
    IF r.thrown THEN r
    ELSE IF ~Truthy(r.value) \/ ~Truthy(r.value.days) \/ Len(r.value.days.v) = 0
    THEN [r EXCEPT !.value = Null]
    ELSE r

\* a getTimetableData that looks for the resource id before the session
getTimetableData_resourceFirst(self, startDate, endDate, resourceId, resp) ==
    LET studentId == IF Truthy(resourceId) THEN resourceId ELSE self.config.resourceId
    IN  IF ~Truthy(studentId)
           \/ (studentId.t = "string" /\ studentId.v = PlaceholderResourceId.v)
        THEN Thrown(self, Err("Student Resource ID is required for timetable access!", 0),
                    <<>>)
        ELSE IF ~Truthy(self.sessionId) THEN Thrown(self, NotAuthenticated, <<>>)
        ELSE getTimetableDataFrom(
                 getTimetableDataForPeriod(
                     self,
                     IF IsDate(startDate) THEN formatDateForAPI(startDate) ELSE startDate,
                     IF IsDate(endDate) THEN formatDateForAPI(endDate) ELSE endDate,
                     studentId, resp))

\* getTimetableData: the session check, the resource id, then the GET; the
\* catch block re-throws
getTimetableData(self, startDate, endDate, resourceId, resp) ==
    IF ~Truthy(self.sessionId) THEN Thrown(self, NotAuthenticated, <<>>)
    ELSE LET studentId == IF Truthy(resourceId) THEN resourceId ELSE self.config.resourceId
         IN  IF ~Truthy(studentId)
                \/ (studentId.t = "string" /\ studentId.v = PlaceholderResourceId.v)
             THEN Thrown(self, Err("Student Resource ID is required for timetable access!", 0),
                         <<>>)
             ELSE getTimetableDataFrom(
                      getTimetableDataForPeriod(
                          self,
                          IF IsDate(startDate) THEN formatDateForAPI(startDate) ELSE startDate,
                          IF IsDate(endDate) THEN formatDateForAPI(endDate) ELSE endDate,
                          studentId, resp))

\* ------------------------------------------------------------------------
\* processTimetableData
\* ------------------------------------------------------------------------
\* x[field] of any value: undefined for a member that is not there and for
\* a member of a number or string
Get(x, field) == IF x.t = "object" /\ field \in DOMAIN x THEN x[field] ELSE Undefined

\* reading a member of it throws a TypeError
Nullish(x) == x.t \in {"null", "undefined"}

\* x || other
OrElse(x, other) == IF Truthy(x) THEN x ELSE other

\* x?.[0]
FirstOf(x) ==
    IF Nullish(x) THEN Undefined
    ELSE IF x.t = "array" /\ Len(x.v) > 0 THEN x.v[1]
    ELSE Undefined

\* x?.member
OptionalGet(x, field) == IF Nullish(x) THEN Undefined ELSE Get(x, field)

\* entry.position?.[0]?.current?.member
SlotName(entry, position, field) ==
    OptionalGet(OptionalGet(FirstOf(Get(entry, position)), "current"), field)

InvalidDate == [invalid |-> TRUE]

\* the text is YYYY-MM-DDTHH:MM
IsDateTimeText(text) ==
    /\ Len(text) = 16
    /\ text[5] = "-" /\ text[8] = "-" /\ text[11] = "T" /\ text[14] = ":"
    /\ \A i \in (1..16) \ {5, 8, 11, 14} : IsDigit(text[i])

\* new Date(x) of a date-time text, read as local time; an Invalid Date for
\* undefined and for any other text
NewDate(x) ==
    IF x.t = "string" /\ IsDateTimeText(x.v)
    THEN [invalid |-> FALSE,
          date |-> Date(ParseDigits(SubSeq(x.v, 1, 4), 0), ParseDigits(SubSeq(x.v, 6, 7), 0),
                        ParseDigits(SubSeq(x.v, 9, 10), 0)),
          hour |-> ParseDigits(SubSeq(x.v, 12, 13), 0),
          minute |-> ParseDigits(SubSeq(x.v, 15, 16), 0)]
    ELSE InvalidDate

\* array.includes(x)
ArrayIncludes(array, x) == \E i \in 1..Len(array.v) : array.v[i] = x

DefaultOptions == [skipCancelled |-> Bool(FALSE), includeNotes |-> Bool(TRUE)]

\* {skipCancelled: false, includeNotes: true, ...options}
SpreadOptions(options) ==
    [key \in {"skipCancelled", "includeNotes"} |->
        IF options[key].t = "absent" THEN DefaultOptions[key] ELSE options[key]]

\* the lesson object built in the try block
LessonOf(entry, day, opts) ==
    [t |-> "object",
     id |-> OrElse(FirstOf(Get(entry, "ids")), Null),
     date |-> Get(day, "date"),
     startTime |-> NewDate(Get(Get(entry, "duration"), "start")),
     endTime |-> NewDate(Get(Get(entry, "duration"), "end")),
     type |-> Get(entry, "type"),
     status |-> Get(entry, "status"),
     teacher |-> OrElse(SlotName(entry, "position1", "displayName"), Str(<<"U", "n", "k", "n", "o", "w", "n", " ", "T", "e", "a", "c", "h", "e", "r">>)),
     teacherLong |-> OrElse(SlotName(entry, "position1", "longName"), Str(<<>>)),
     subject |-> OrElse(SlotName(entry, "position2", "displayName"), Str(<<"U", "n", "k", "n", "o", "w", "n", " ", "S", "u", "b", "j", "e", "c", "t">>)),
     subjectLong |-> OrElse(SlotName(entry, "position2", "longName"), Str(<<>>)),
     room |-> OrElse(SlotName(entry, "position3", "displayName"), Str(<<"U", "n", "k", "n", "o", "w", "n", " ", "R", "o", "o", "m">>)),
     roomLong |-> OrElse(SlotName(entry, "position3", "longName"), Str(<<>>)),
     icons |-> OrElse(Get(entry, "icons"), Arr(<<>>)),
     hasHomework |-> Bool(ArrayIncludes(OrElse(Get(entry, "icons"), Arr(<<>>)), Str(<<"H", "O", "M", "E", "W", "O", "R", "K">>))),
     isExam |-> Bool(Get(entry, "type") = Str(<<"E", "X", "A", "M">>)),
     isCancelled |-> Bool(Get(entry, "status") = Str(<<"C", "A", "N", "C", "E", "L", "L", "E", "D">>)),
     isAdditional |-> Bool(Get(entry, "status") = Str(<<"A", "D", "D", "I", "T", "I", "O", "N", "A", "L">>)),
     notes |-> IF Truthy(opts.includeNotes) THEN OrElse(Get(entry, "notesAll"), Str(<<>>))
               ELSE Str(<<>>),
     lessonInfo |-> IF Truthy(opts.includeNotes) THEN OrElse(Get(entry, "lessonInfo"), Str(<<>>))
                    ELSE Str(<<>>),
     texts |-> IF Truthy(opts.includeNotes) THEN OrElse(Get(entry, "texts"), Arr(<<>>))
               ELSE Arr(<<>>),
     rawEntry |-> entry]

\* the counters and the lessons array before the first day
NoLessons ==
    [thrown |-> FALSE, lessons |-> <<>>, totalEntries |-> 0, skippedCancelled |-> 0,
     processedSuccessfully |-> 0, processingErrors |-> 0]

\* a try block that reads the teacher slot without optional chaining
TryThrows_needsSlots(entry) ==
    \/ Nullish(entry)
    \/ Nullish(Get(entry, "duration"))
    \/ Nullish(FirstOf(Get(entry, "position1")))

\* the try block throws a TypeError: entry.ids of null or undefined, or
\* entry.duration.start without a duration
TryThrows(entry) == Nullish(entry) \/ Nullish(Get(entry, "duration"))

\* one round of day.gridEntries.forEach: with skipCancelled, entry.status is
\* read before the try block, and a null or undefined entry throws there;
\* an error thrown in the try block is counted
processEntry(sofar, entry, day, opts) ==
    IF sofar.thrown THEN sofar
    ELSE IF Truthy(opts.skipCancelled) /\ Nullish(entry)
    THEN [sofar EXCEPT !.thrown = TRUE]
    ELSE IF Truthy(opts.skipCancelled) /\ Get(entry, "status") = Str(<<"C", "A", "N", "C", "E", "L", "L", "E", "D">>)
    THEN [sofar EXCEPT !.skippedCancelled = @ + 1]
    ELSE IF TryThrows(entry)
    THEN [sofar EXCEPT !.processingErrors = @ + 1]
    ELSE [sofar EXCEPT !.lessons = Append(@, LessonOf(entry, day, opts)),
                       !.processedSuccessfully = @ + 1]

RECURSIVE processEntries(_, _, _, _)
processEntries(sofar, entries, day, opts) ==
    IF entries = <<>> THEN sofar
    ELSE processEntries(processEntry(sofar, Head(entries), day, opts), Tail(entries), day, opts)

\* a run that gives up on the whole payload at a day without a gridEntries array
processDay_strict(sofar, day, opts) ==
    IF sofar.thrown THEN sofar
    ELSE IF ~Truthy(Get(day, "gridEntries")) \/ Get(day, "gridEntries").t # "array"
    THEN [sofar EXCEPT !.thrown = TRUE]
    ELSE processEntries([sofar EXCEPT !.totalEntries = @ + Len(Get(day, "gridEntries").v)],
                        Get(day, "gridEntries").v, day, opts)

\* one round of timetableData.days.forEach: a day without a gridEntries
\* array is passed over
processDay(sofar, day, opts) ==
    IF sofar.thrown THEN sofar
    ELSE IF ~Truthy(Get(day, "gridEntries")) \/ Get(day, "gridEntries").t # "array"
    THEN sofar
    ELSE processEntries([sofar EXCEPT !.totalEntries = @ + Len(Get(day, "gridEntries").v)],
                        Get(day, "gridEntries").v, day, opts)

RECURSIVE processDays(_, _, _)
processDays(sofar, days, opts) ==
    IF days = <<>> THEN sofar
    ELSE processDays(processDay(sofar, Head(days), opts), Tail(days), opts)

\* a run that hands back the lessons array even when it is empty
processTimetableDataFrom_emptyArray(self, done) ==
    IF done.thrown THEN [summary |-> done] @@ Thrown(self, Err("TypeError", 0), <<>>)
    ELSE [summary |-> done] @@ Returned(self, Arr(done.lessons), <<>>)

\* what the run hands back: the TypeError, or the counters it logged and
\* null for no lesson or else the lessons
processTimetableDataFrom(self, done) ==
    IF done.thrown THEN [summary |-> done] @@ Thrown(self, Err("TypeError", 0), <<>>)
    ELSE [summary |-> done]
            @@ Returned(self, IF Len(done.lessons) = 0 THEN Null ELSE Arr(done.lessons), <<>>)

\* processTimetableData(timetableData, options)
processTimetableData(self, timetableData, options) ==
    IF ~Truthy(timetableData) \/ ~Truthy(Get(timetableData, "days"))
    THEN [summary |-> NoLessons] @@ Returned(self, Null, <<>>)
    ELSE processTimetableDataFrom(
             self, processDays(NoLessons, Get(timetableData, "days").v, SpreadOptions(options)))

\* ------------------------------------------------------------------------
\* class EventNotificationManager
\* ------------------------------------------------------------------------
\* an instant of the local clock: a calendar date and the hour of the day
Instant(date, hour) == [date |-> date, hour |-> hour]

\* instant.getTime(), counted in hours
getTime(instant) == DaysFromCivil(instant.date) * 24 + instant.hour

\* new Date(time), time counted in hours
InstantOfTime(time) == Instant(CivilFromDays(time \div 24), time % 24)

\* new Date(year, month, day).getTime() in hours, month counted from 0; a
\* month or day beyond its range carries over; an Invalid Date when a part
\* is NaN
NewDateTime(year, month, day) ==
    IF year.nan \/ month.nan \/ day.nan THEN NaN
    ELSE [nan |-> FALSE,
          v |-> (DaysFromCivil(Date(year.v + (month.v \div 12), (month.v % 12) + 1, 1))
                 + day.v - 1) * 24]

\* n - 1 of a number that may be NaN
Minus1(n) == IF n.nan THEN NaN ELSE [nan |-> FALSE, v |-> n.v - 1]

\* parseWebUntisDate(date).getTime() of a YYYYMMDD number or string, or null
parseWebUntisDate(date) ==
    IF ~Truthy(date) THEN Null
    ELSE NewDateTime(parseInt(Str(substring(TemplateText(date), 0, 4))),
                     Minus1(parseInt(Str(substring(TemplateText(date), 4, 6)))),
                     parseInt(Str(substring(TemplateText(date), 6, 8))))

\* the filter of filterUpcomingHomework on a due date already parsed
DueWithin(dueDate, completed, now, hoursAhead) ==
    /\ dueDate # Null
    /\ ~dueDate.nan
    /\ dueDate.v <= getTime(now) + hoursAhead
    /\ dueDate.v > getTime(now)
    /\ ~Truthy(completed)

\* filterUpcomingHomework: due after now and at most hoursAhead later, and
\* not completed
filterUpcomingHomework(homework, now, hoursAhead) ==
    SelectSeq(homework,
              LAMBDA hw : DueWithin(parseWebUntisDate(hw.dueDate), hw.completed, now, hoursAhead))

\* triggerNotifications: every callback is called with the events, a
\* callback that throws does not stop the others
triggerNotifications(notificationCallbacks, events) ==
    [i \in 1..Len(notificationCallbacks) |->
        [callback |-> notificationCallbacks[i], events |-> events]]

\* checkUpcomingEvents once the upcoming homework is known
checkUpcomingEventsFiltered(r, notificationCallbacks, upcomingEvents) ==
    [notified |-> IF Len(upcomingEvents) > 0
                  THEN triggerNotifications(notificationCallbacks, upcomingEvents)
                  ELSE <<>>]
        @@ Returned(r.self, Arr(upcomingEvents), r.sent)

\* checkUpcomingEvents once getHomework has come back with r: the catch
\* block logs the error and returns an empty array
checkUpcomingEventsFrom(r, notificationCallbacks, now, hoursAhead) ==
    IF r.thrown THEN [notified |-> <<>>] @@ Returned(r.self, Arr(<<>>), r.sent)
    ELSE checkUpcomingEventsFiltered(
             r, notificationCallbacks,
             filterUpcomingHomework(OrEmpty(r.value.homeworks), now, hoursAhead))

\* checkUpcomingEvents(hoursAhead) of a manager over the object self
checkUpcomingEvents(self, notificationCallbacks, now, hoursAhead, resp) ==
    checkUpcomingEventsFrom(
        getHomework(self, formatDate(now.date),
                    formatDate(InstantOfTime(getTime(now) + hoursAhead).date), resp),
        notificationCallbacks, now, hoursAhead)

\* ------------------------------------------------------------------------
\* Global API instance manager
\* ------------------------------------------------------------------------
ConfigHashKeys == <<"school", "username", "password", "server">>

\* JSON.stringify({school, username, password, server}): the members in
\* this order, a member whose value is undefined left out
RECURSIVE StringifyMembers(_, _)
StringifyMembers(config, keys) ==
    IF keys = <<>> THEN <<>>
    ELSE IF config[Head(keys)] = Undefined
         THEN StringifyMembers(config, Tail(keys))
         ELSE <<(<<Head(keys), config[Head(keys)]>>)>> \o StringifyMembers(config, Tail(keys))

\* a fingerprint that takes the resource id in
ConfigHash_withResourceId(config) ==
    [t |-> "string",
     v |-> StringifyMembers(config, <<"school", "username", "password", "server", "resourceId">>)]

\* a fingerprint that leaves the server out
ConfigHash_noServer(config) ==
    [t |-> "string", v |-> StringifyMembers(config, <<"school", "username", "password">>)]

ConfigHash(config) == [t |-> "string", v |-> StringifyMembers(config, ConfigHashKeys)]

\* the world the instance manager works on
World == [insts |-> insts, api |-> api, globalAPIInstance |-> globalAPIInstance,
          globalConfigHash |-> globalConfigHash]

\* a test that never finds the cached instance usable
needsNewInstance_always(w, configHash) == TRUE

\* the test "config changed or no instance exists": a new instance is needed
needsNewInstance(w, configHash) ==
    \/ w.globalAPIInstance = 0
    \/ w.globalConfigHash # configHash
    \/ ~Truthy(w.insts[w.globalAPIInstance].sessionId)

\* what a call to the instance manager hands back: the world as the call
\* left it, the Error it threw or the instance it returned, the requests it
\* sent, and whether it constructed an instance
Outcome(w, thrown, error, value, sent, created) ==
    [w |-> w, thrown |-> thrown, error |-> error, value |-> value, sent |-> sent,
     created |-> created]

\* an instance manager that stores the fingerprint only when authenticate succeeds
authenticateNewInstance_hashOnSuccess(w, id, configHash, a) ==
    Outcome([w EXCEPT !.insts = [w.insts EXCEPT ![id] = a.self],
                      !.globalAPIInstance = id,
                      !.globalConfigHash = IF a.thrown \/ ~a.value THEN w.globalConfigHash
                                           ELSE configHash],
            a.thrown \/ ~a.value,
            IF a.thrown THEN a.error
            ELSE IF ~a.value THEN Err("Authentication failed", 0) ELSE NoError,
            IF a.thrown \/ ~a.value THEN 0 ELSE id,
            a.sent, TRUE)

\* an instance manager that returns the new instance whatever authenticate reports
authenticateNewInstance_ignoresResult(w, id, configHash, a) ==
    Outcome([w EXCEPT !.insts = [w.insts EXCEPT ![id] = a.self],
                      !.globalAPIInstance = id, !.globalConfigHash = configHash],
            FALSE, NoError, id, a.sent, TRUE)

\* getWebUntisApiInstance once the new instance, in slot id, is in the cache
\* and its authenticate has come back with a
authenticateNewInstance(w, id, configHash, a) ==
    Outcome([w EXCEPT !.insts = [w.insts EXCEPT ![id] = a.self],
                      !.globalAPIInstance = id, !.globalConfigHash = configHash],
            a.thrown \/ ~a.value,
            IF a.thrown THEN a.error
            ELSE IF ~a.value THEN Err("Authentication failed", 0) ELSE NoError,
            IF a.thrown \/ ~a.value THEN 0 ELSE id,
            a.sent, TRUE)

\* an instance manager that sends a logout for the instance it replaces
getWebUntisApiInstance_logsOutReplaced(w, config, rpc, tok) ==
    IF ~IsConfig(config)
    THEN Outcome(w, TRUE, Err("Config parameter is required", 0), 0, <<>>, FALSE)
    ELSE IF needsNewInstance(w, ConfigHash(config))
    THEN [authenticateNewInstance(w, FreeSlot(w.api), ConfigHash(config),
                                  authenticate(WebUntisAPI(config, FreeSlot(w.api)), rpc, tok))
             EXCEPT !.sent = IF w.globalAPIInstance # 0
                                /\ Truthy(w.insts[w.globalAPIInstance].sessionId)
                             THEN <<Request("logout", w.insts[w.globalAPIInstance],
                                            <<w.insts[w.globalAPIInstance].school>>,
                                            w.insts[w.globalAPIInstance].sessionId, NoHeader)>>
                                      \o @
                             ELSE @]
    ELSE Outcome(w, FALSE, NoError, w.globalAPIInstance, <<>>, FALSE)

getWebUntisApiInstance(w, config, rpc, tok) ==
    IF ~IsConfig(config)
    THEN Outcome(w, TRUE, Err("Config parameter is required", 0), 0, <<>>, FALSE)
    ELSE IF needsNewInstance(w, ConfigHash(config))
    THEN authenticateNewInstance(w, FreeSlot(w.api), ConfigHash(config),
                                 authenticate(WebUntisAPI(config, FreeSlot(w.api)), rpc, tok))
    ELSE Outcome(w, FALSE, NoError, w.globalAPIInstance, <<>>, FALSE)

\* a clear that keeps the cache when the logout did not succeed
logoutCached_keepsOnFailure(w, l) ==
    Outcome(IF l.value
            THEN [w EXCEPT !.insts = [w.insts EXCEPT ![w.globalAPIInstance] = l.self],
                           !.globalAPIInstance = 0, !.globalConfigHash = Null]
            ELSE w,
            FALSE, NoError, Undefined, l.sent, FALSE)

\* clearWebUntisApiInstance once the logout of the cached instance has come
\* back with l
logoutCached(w, l) ==
    Outcome([w EXCEPT !.insts = [w.insts EXCEPT ![w.globalAPIInstance] = l.self],
                      !.globalAPIInstance = 0, !.globalConfigHash = Null],
            FALSE, NoError, Undefined, l.sent, FALSE)

clearWebUntisApiInstance(w, rpc) ==
    IF w.globalAPIInstance # 0
    THEN logoutCached(w, logout(w.insts[w.globalAPIInstance], rpc))
    ELSE Outcome([w EXCEPT !.globalAPIInstance = 0, !.globalConfigHash = Null],
                 FALSE, NoError, Undefined, <<>>, FALSE)

\* ------------------------------------------------------------------------
\* The calls a script makes, one at a time
\* ------------------------------------------------------------------------
\* the answers drawn for the calls of a script that works on the cached
\* instance: one of each kind of outcome
CacheRpcResponses ==
    {TransportRaise, Http(500, UnparsableBody), Http(200, RpcObject(TRUE, Undefined)),
     Http(200, RpcObject(FALSE, Null))}

CacheAuthResponses ==
    {p \in AuthResponses :
        /\ p[1] \in CacheRpcResponses \cup {Http(200, RpcObject(FALSE, ResultA)),
                                           Http(200, RpcObject(FALSE, ResultNoSid))}
        /\ p[2] \in {TransportRaise, Http(403, [text |-> <<>>]),
                    Http(200, [text |-> <<" ", "T", "\n">>])}}

\* number of requests of one kind in a request list
RECURSIVE Count(_, _)
Count(sent, kind) ==
    IF sent = <<>> THEN 0
    ELSE (IF Head(sent).req = kind THEN 1 ELSE 0) + Count(Tail(sent), kind)

\* the upstream answers only the requests that reach it: an answer is drawn
\* for a call only when the call sends a request of that kind and a
\* transport exists to carry it
Answered(r, kind, resp) ==
    (env = "none" \/ Count(r.sent, kind) = 0) => resp = TransportRaise

\* what lastOp records of a call: the operation, its receiver (a slot), the
\* config argument, the other arguments (the clock's date first, for an
\* operation that reads the clock), the upstream answers drawn for it, and
\* its outcome
Call(op, inst, config, args, answers, r, created) ==
    [op |-> op, inst |-> inst, config |-> config, args |-> args, answers |-> answers,
     thrown |-> r.thrown, error |-> r.error, value |-> r.value, sent |-> r.sent,
     created |-> created]

Init ==
    /\ calls = [c \in Callers |-> NoCall]
    /\ env \in Envs
    /\ insts = [s \in Slots |-> NoInst]
    /\ api = 0
    /\ globalAPIInstance = 0
    /\ globalConfigHash = Null
    /\ lastOp = [op |-> "none", inst |-> 0, config |-> NoConfig, args |-> <<>>,
                 answers |-> <<>>,
                 thrown |-> FALSE, error |-> NoError, value |-> Undefined, sent |-> <<>>,
                 created |-> FALSE]

\* api = new WebUntisAPI(config)
CallNew(config) ==
    LET id == FreeSlot(globalAPIInstance)
    IN  /\ insts' = Collect([insts EXCEPT ![id] = WebUntisAPI(config, id)], id, globalAPIInstance)
        /\ api' = id
        /\ lastOp' = Call("new", id, config, <<>>, <<>>,
                          [thrown |-> FALSE, error |-> NoError, value |-> Undefined, sent |-> <<>>],
                          TRUE)
        /\ UNCHANGED <<env, globalAPIInstance, globalConfigHash, calls>>

\* api.authenticate()
CallAuthenticate(rpc, tok) ==
    /\ api # 0
    /\ \E r \in {authenticate(insts[api], rpc, tok)} :
        /\ Answered(r, "authenticate", rpc) /\ Answered(r, "token", tok)
        /\ insts' = [insts EXCEPT ![api] = r.self]
        /\ lastOp' = Call("authenticate", api, NoConfig, <<>>, <<rpc, tok>>, r, FALSE)
    /\ UNCHANGED <<env, api, globalAPIInstance, globalConfigHash, calls>>

\* api.logout()
CallLogout(rpc) ==
    /\ api # 0
    /\ \E r \in {logout(insts[api], rpc)} :
        /\ Answered(r, "logout", rpc)
        /\ insts' = [insts EXCEPT ![api] = r.self]
        /\ lastOp' = Call("logout", api, NoConfig, <<>>, <<rpc>>, r, FALSE)
    /\ UNCHANGED <<env, api, globalAPIInstance, globalConfigHash, calls>>

\* api = getWebUntisApiInstance(config): api is assigned when the call returns
CallGetInstance(config, rpc, tok) ==
    \E r \in {getWebUntisApiInstance(World, config, rpc, tok)} :
        /\ Answered(r, "authenticate", rpc) /\ Answered(r, "token", tok)
        /\ api' = IF r.thrown THEN api ELSE r.value
        /\ insts' = Collect(r.w.insts, api', r.w.globalAPIInstance)
        /\ globalAPIInstance' = r.w.globalAPIInstance
        /\ globalConfigHash' = r.w.globalConfigHash
        /\ lastOp' = Call("getInstance", r.w.globalAPIInstance, config, <<>>, <<rpc, tok>>, r, r.created)
        /\ UNCHANGED <<env, calls>>

\* clearWebUntisApiInstance()
CallClear(rpc) ==
    \E r \in {clearWebUntisApiInstance(World, rpc)} :
        /\ Answered(r, "logout", rpc)
        /\ insts' = Collect(r.w.insts, api, r.w.globalAPIInstance)
        /\ globalAPIInstance' = r.w.globalAPIInstance
        /\ globalConfigHash' = r.w.globalConfigHash
        /\ lastOp' = Call("clear", globalAPIInstance, NoConfig, <<>>, <<rpc>>, r, FALSE)
        /\ UNCHANGED <<env, api, calls>>

\* the clock: the local dates a call may find when it asks for new Date()
Clock == {Date(2025, 1, 29), Date(2024, 12, 31)}

\* the day counts, flags and resource ids the script passes
DayCounts == {3}
ResourceIdArgs == {Null, Str(<<"r", "2">>), PlaceholderResourceId}

\* the date range a caller of getTimetableData builds from the clock:
\* today and seven days on, as Date objects or as YYYY-MM-DD strings
TimetableRanges ==
    UNION {{<<now, AddDays(now, 7)>>,
            <<formatDateForAPI(now), formatDateForAPI(AddDays(now, 7))>>} : now \in Clock}

\* api.getHomework(startDate, endDate), the range taken from the clock
CallGetHomework(now, resp) ==
    /\ api # 0
    /\ \E r \in {getHomework(insts[api], formatDate(now), formatDate(AddDays(now, 7)), resp)} :
        /\ Answered(r, "homework", resp)
        /\ insts' = [insts EXCEPT ![api] = r.self]
        /\ lastOp' = Call("getHomework", api, NoConfig, <<now>>, <<resp>>, r, FALSE)
    /\ UNCHANGED <<env, api, globalAPIInstance, globalConfigHash, calls>>

\* api.getTodaysEvents()
CallGetTodaysEvents(now, resp) ==
    /\ api # 0
    /\ \E r \in {getTodaysEvents(insts[api], now, resp)} :
        /\ Answered(r, "homework", resp)
        /\ insts' = [insts EXCEPT ![api] = r.self]
        /\ lastOp' = Call("getTodaysEvents", api, NoConfig, <<now>>, <<resp>>, r, FALSE)
    /\ UNCHANGED <<env, api, globalAPIInstance, globalConfigHash, calls>>

\* api.getWeekEvents()
CallGetWeekEvents(now, resp) ==
    /\ api # 0
    /\ \E r \in {getWeekEvents(insts[api], now, resp)} :
        /\ Answered(r, "homework", resp)
        /\ insts' = [insts EXCEPT ![api] = r.self]
        /\ lastOp' = Call("getWeekEvents", api, NoConfig, <<now>>, <<resp>>, r, FALSE)
    /\ UNCHANGED <<env, api, globalAPIInstance, globalConfigHash, calls>>

\* api.getHomeworkList(days, onlyIncomplete, excludeToday)
CallGetHomeworkList(now, days, onlyIncomplete, excludeToday, resp) ==
    /\ api # 0
    /\ \E r \in {getHomeworkList(insts[api], now, days, onlyIncomplete, excludeToday, resp)} :
        /\ Answered(r, "homework", resp)
        /\ insts' = [insts EXCEPT ![api] = r.self]
        /\ lastOp' = Call("getHomeworkList", api, NoConfig,
                          <<now, days, onlyIncomplete, excludeToday>>, <<resp>>, r, FALSE)
    /\ UNCHANGED <<env, api, globalAPIInstance, globalConfigHash, calls>>

\* api.getFormattedHomework(days, onlyIncomplete, excludeToday)
CallGetFormattedHomework(now, days, onlyIncomplete, excludeToday, resp) ==
    /\ api # 0
    /\ \E r \in {getFormattedHomework(insts[api], now, days, onlyIncomplete, excludeToday, resp)} :
        /\ Answered(r, "homework", resp)
        /\ insts' = [insts EXCEPT ![api] = r.self]
        /\ lastOp' = Call("getFormattedHomework", api, NoConfig,
                          <<now, days, onlyIncomplete, excludeToday>>, <<resp>>, r, FALSE)
    /\ UNCHANGED <<env, api, globalAPIInstance, globalConfigHash, calls>>

\* api.getTimetableData(startDate, endDate, resourceId)
CallGetTimetableData(startDate, endDate, resourceId, resp) ==
    /\ api # 0
    /\ \E r \in {getTimetableData(insts[api], startDate, endDate, resourceId, resp)} :
        /\ Answered(r, "timetable", resp)
        /\ insts' = [insts EXCEPT ![api] = r.self]
        /\ lastOp' = Call("getTimetableData", api, NoConfig,
                          <<startDate, endDate, resourceId>>, <<resp>>, r, FALSE)
    /\ UNCHANGED <<env, api, globalAPIInstance, globalConfigHash, calls>>

\* the instants, look-ahead and callbacks of a notification check
NotificationClock == {Instant(Date(2025, 2, 2), 9), Instant(Date(2025, 1, 29), 9)}
HoursAheadArgs == {24}
CallbackLists == {<<"logs">>}

\* new EventNotificationManager(api), addNotificationCallback, and
\* notificationManager.checkUpcomingEvents(hoursAhead)
CallCheckUpcomingEvents(now, hoursAhead, notificationCallbacks, resp) ==
    /\ api # 0
    /\ \E r \in {checkUpcomingEvents(insts[api], notificationCallbacks, now, hoursAhead, resp)} :
        /\ Answered(r, "homework", resp)
        /\ insts' = [insts EXCEPT ![api] = r.self]
        /\ lastOp' = [notified |-> r.notified]
                        @@ Call("checkUpcomingEvents", api, NoConfig,
                                <<now, hoursAhead, notificationCallbacks>>, <<resp>>, r, FALSE)
    /\ UNCHANGED <<env, api, globalAPIInstance, globalConfigHash, calls>>

\* the configurations a script constructs its own object from
ScriptConfigs ==
    {BaseConfig,
     [BaseConfig EXCEPT !.server = Undefined],
     [BaseConfig EXCEPT !.resourceId = Undefined],
     [BaseConfig EXCEPT !.resourceId = PlaceholderResourceId]}

\* A script that constructs its own WebUntisAPI object and works on it
Next ==
    \/ \E config \in ScriptConfigs : CallNew(config)
    \/ \E p \in AuthResponses : CallAuthenticate(p[1], p[2])
    \/ \E rpc \in RpcResponses : CallLogout(rpc)
    \/ \E now \in Clock, resp \in HomeworkResponses : CallGetHomework(now, resp)
    \/ \E now \in Clock, resp \in HomeworkResponses : CallGetTodaysEvents(now, resp)
    \/ \E now \in Clock, resp \in HomeworkResponses : CallGetWeekEvents(now, resp)
    \/ \E now \in Clock, days \in DayCounts, onlyIncomplete \in BOOLEAN,
          excludeToday \in BOOLEAN, resp \in HomeworkResponses :
          CallGetHomeworkList(now, days, onlyIncomplete, excludeToday, resp)
    \/ \E now \in Clock, days \in DayCounts, onlyIncomplete \in BOOLEAN,
          excludeToday \in BOOLEAN, resp \in HomeworkResponses :
          CallGetFormattedHomework(now, days, onlyIncomplete, excludeToday, resp)
    \/ \E range \in TimetableRanges, resourceId \in ResourceIdArgs, resp \in TimetableResponses :
          CallGetTimetableData(range[1], range[2], resourceId, resp)
    \/ \E now \in NotificationClock, hoursAhead \in HoursAheadArgs,
          notificationCallbacks \in CallbackLists, resp \in HomeworkResponses :
          CallCheckUpcomingEvents(now, hoursAhead, notificationCallbacks, resp)

Spec == Init /\ [][Next]_vars

\* A script that obtains its WebUntisAPI object from the instance manager
NextCache ==
    \/ \E config \in ConfigArgs, p \in CacheAuthResponses : CallGetInstance(config, p[1], p[2])
    \/ \E rpc \in CacheRpcResponses : CallClear(rpc)
    \/ \E p \in CacheAuthResponses : CallAuthenticate(p[1], p[2])
    \/ \E rpc \in CacheRpcResponses : CallLogout(rpc)

SpecCache == Init /\ [][NextCache]_vars

\* ------------------------------------------------------------------------
\* The homework list and its report, applied to the payloads of an upstream
\* that answers an authenticated object
\* ------------------------------------------------------------------------
MaxHomeworks == 3

HomeworkItems ==
    {Homework(1, 10, 20250203, Bool(FALSE), Str(<<"a">>), Undefined),
     Homework(2, 11, 20250131, Bool(TRUE), Undefined, Str(<<"E">>)),
     Homework(3, 10, 20250131, Bool(FALSE), Str(NoOpenHomework), Undefined),
     Homework(4, 12, 20250203, Bool(FALSE), Str(<<"b">>), Str(<<>>)),
     Homework(5, 13, 20250201, Bool(TRUE), Str(<<"c">>), Undefined)}

\* the homework arrays of a payload: up to MaxHomeworks different items in
\* any order
HomeworkLists ==
    UNION {{hs \in [1..n -> HomeworkItems] : \A i, j \in 1..n : i # j => hs[i] # hs[j]} :
           n \in 0..MaxHomeworks}

\* the lessons arrays of a payload: absent, or lessons of different ids
LessonLists ==
    {Undefined,
     Arr(<<Lesson(10, Str(<<"M">>))>>),
     Arr(<<Lesson(10, Str(<<"M">>)), Lesson(11, Str(<<>>)), Lesson(12, Undefined)>>)}

HomeworkPayloads ==
    {HomeworkData(Undefined, Undefined, Undefined)}
      \cup {HomeworkData(Undefined, Arr(hs), ls) : hs \in HomeworkLists, ls \in LessonLists}

\* the object a successful authenticate leaves behind
AuthenticatedAPI ==
    [WebUntisAPI(BaseConfig, 1) EXCEPT !.sessionId = ResultA.sessionId,
                                       !.personId = ResultA.personId,
                                       !.personType = ResultA.personType]

\* an authenticated object, and the payload the upstream holds for it
InitHomework ==
    /\ calls = [c \in Callers |-> NoCall]
    /\ env \in Envs \ {"none"}
    /\ insts = [s \in Slots |-> IF s = 1 THEN AuthenticatedAPI ELSE NoInst]
    /\ api = 1
    /\ globalAPIInstance = 0
    /\ globalConfigHash = Null
    /\ \E payload \in HomeworkPayloads :
          lastOp = Call("upstream", 0, NoConfig, <<>>, <<Http(200, JsonObject(payload))>>,
                        [thrown |-> FALSE, error |-> NoError, value |-> Undefined, sent |-> <<>>],
                        FALSE)

HomeworkClock == {Date(2025, 1, 29)}

\* api.getHomeworkList(days, onlyIncomplete, excludeToday) on the payload
ListHomework(now, days, onlyIncomplete, excludeToday) ==
    /\ lastOp.op = "upstream"
    /\ CallGetHomeworkList(now, days, onlyIncomplete, excludeToday, lastOp.answers[1])

\* api.getFormattedHomework(days, onlyIncomplete, excludeToday) on the payload
ListFormattedHomework(now, days, onlyIncomplete, excludeToday) ==
    /\ lastOp.op = "upstream"
    /\ CallGetFormattedHomework(now, days, onlyIncomplete, excludeToday, lastOp.answers[1])

\* the lists a caller hands to formatHomework: what getHomeworkList has just
\* returned, or null or an empty array of its own
ListArgs ==
    IF lastOp.op = "getHomeworkList" /\ ~lastOp.thrown THEN {lastOp.value}
    ELSE IF lastOp.op = "upstream" THEN {Null, Arr(<<>>)}
    ELSE {}

\* api.formatHomework(homeworkList, days, onlyIncomplete)
CallFormatHomework(homeworkList, days, onlyIncomplete) ==
    /\ homeworkList \in ListArgs
    /\ lastOp' = Call("formatHomework", api, NoConfig, <<homeworkList, days, onlyIncomplete>>,
                      lastOp.answers,
                      Returned(insts[api], formatHomework(homeworkList, days, onlyIncomplete), <<>>),
                      FALSE)
    /\ UNCHANGED <<env, insts, api, globalAPIInstance, globalConfigHash, calls>>

\* sendHomeworkEmail(config, emailAddress, days) on the payload
CallSendHomeworkEmail(now, days) ==
    /\ lastOp.op = "upstream"
    /\ \E r \in {sendHomeworkEmail(insts[api], now, days, lastOp.answers[1])} :
        /\ insts' = [insts EXCEPT ![api] = r.self]
        /\ lastOp' = Call("sendHomeworkEmail", api, NoConfig, <<now, days>>, lastOp.answers,
                          r, FALSE)
    /\ UNCHANGED <<env, api, globalAPIInstance, globalConfigHash, calls>>

NextHomework ==
    \/ \E now \in HomeworkClock, days \in DayCounts, onlyIncomplete \in BOOLEAN,
          excludeToday \in BOOLEAN : ListHomework(now, days, onlyIncomplete, excludeToday)
    \/ \E now \in HomeworkClock, days \in DayCounts, onlyIncomplete \in BOOLEAN,
          excludeToday \in BOOLEAN : ListFormattedHomework(now, days, onlyIncomplete, excludeToday)
    \/ \E homeworkList \in ListArgs, days \in DayCounts, onlyIncomplete \in BOOLEAN :
          CallFormatHomework(homeworkList, days, onlyIncomplete)
    \/ \E now \in HomeworkClock, days \in DayCounts : CallSendHomeworkEmail(now, days)

SpecHomework == InitHomework /\ [][NextHomework]_vars

\* ------------------------------------------------------------------------
\* The lessons of a timetable, applied to the payloads of an upstream that
\* answers an authenticated object
\* ------------------------------------------------------------------------
\* days of a payload, and grid entries of a payload in all
MaxDays == 2
MaxEntries == 2

FirstLesson == Duration(Str(<<"2", "0", "2", "5", "-", "0", "1", "-", "2", "9", "T", "0", "8", ":", "0", "0">>), Str(<<"2", "0", "2", "5", "-", "0", "1", "-", "2", "9", "T", "0", "8", ":", "4", "5">>))

\* grid entries: regular, cancelled, without its slots, cancelled without
\* display names in its slots (the teacher's long name is there), without a
\* duration, null, and a number
GridEntries ==
    {GridEntry(1, FirstLesson, Str(<<"N", "O", "R", "M", "A", "L">>), Str(<<"R", "E", "G", "U", "L", "A", "R">>),
               Arr(<<Slot(Resource(Str(<<"T">>), Str(<<"T", "e", "a", "c", "h", "e", "r">>)))>>),
               Arr(<<Slot(Resource(Str(<<"M">>), Str(<<"M", "a", "t", "h", "s">>)))>>),
               Arr(<<Slot(Resource(Str(<<"R", "1">>), Str(<<"R", "o", "o", "m", " ", "1">>)))>>),
               Arr(<<Str(<<"H", "O", "M", "E", "W", "O", "R", "K">>)>>), Str(<<"n">>)),
     GridEntry(2, FirstLesson, Str(<<"N", "O", "R", "M", "A", "L">>), Str(<<"C", "A", "N", "C", "E", "L", "L", "E", "D">>),
               Arr(<<Slot(Resource(Str(<<"T">>), Str(<<"T", "e", "a", "c", "h", "e", "r">>)))>>),
               Arr(<<Slot(Resource(Str(<<"M">>), Str(<<"M", "a", "t", "h", "s">>)))>>),
               Arr(<<Slot(Resource(Str(<<"R", "1">>), Str(<<"R", "o", "o", "m", " ", "1">>)))>>),
               Undefined, Undefined),
     GridEntry(3, FirstLesson, Str(<<"E", "X", "A", "M">>), Str(<<"A", "D", "D", "I", "T", "I", "O", "N", "A", "L">>),
               Undefined, Arr(<<>>), Arr(<<Slot(Undefined)>>), Undefined, Undefined),
     GridEntry(4, FirstLesson, Str(<<"N", "O", "R", "M", "A", "L">>), Str(<<"C", "A", "N", "C", "E", "L", "L", "E", "D">>),
               Arr(<<Slot(Resource(Undefined, Str(<<"T", "e", "a", "c", "h", "e", "r">>)))>>),
               Arr(<<Slot(Resource(Undefined, Undefined))>>),
               Arr(<<Slot(Resource(Undefined, Undefined))>>),
               Undefined, Undefined),
     GridEntry(5, Undefined, Str(<<"N", "O", "R", "M", "A", "L">>), Str(<<"R", "E", "G", "U", "L", "A", "R">>),
               Arr(<<Slot(Resource(Str(<<"T">>), Str(<<"T", "e", "a", "c", "h", "e", "r">>)))>>),
               Arr(<<Slot(Resource(Str(<<"M">>), Str(<<"M", "a", "t", "h", "s">>)))>>),
               Arr(<<Slot(Resource(Str(<<"R", "1">>), Str(<<"R", "o", "o", "m", " ", "1">>)))>>),
               Undefined, Undefined),
     Null,
     Num(5)}

\* what the gridEntries member of a day is: absent, an object that is no
\* array, or an array
GridEntryKinds == {"absent", "object", "array"}

RECURSIVE EntriesUpTo(_, _)
EntriesUpTo(counts, i) == IF i = 0 THEN 0 ELSE counts[i] + EntriesUpTo(counts, i - 1)

\* for k days, the number of entries of each day and the kind of its
\* gridEntries member: at most MaxEntries entries in all
DayShapes(k) ==
    {shape \in [1..k -> 0..MaxEntries] \X [1..k -> GridEntryKinds] :
        /\ EntriesUpTo(shape[1], k) <= MaxEntries
        /\ \A i \in 1..k : shape[1][i] > 0 => shape[2][i] = "array"}

\* the gridEntries member of day i, its entries taken from es in order
GridEntriesOf(shape, es, i) ==
    IF shape[2][i] = "absent" THEN Undefined
    ELSE IF shape[2][i] = "object" THEN [t |-> "object"]
    ELSE Arr(SubSeq(es, EntriesUpTo(shape[1], i - 1) + 1, EntriesUpTo(shape[1], i)))

\* the date of the i-th day of the range
DayDate(i) == formatDateForAPI(AddDays(Date(2025, 1, 29), i - 1))

\* a timetable payload of k days
TimetablePayload(k, shape, es) ==
    TimetableData(Arr([i \in 1..k |-> GridDay(DayDate(i), GridEntriesOf(shape, es, i))]))

\* the state in which the upstream holds the payload for the object
Upstream(payload) ==
    lastOp = Call("upstream", 0, NoConfig, <<>>, <<Http(200, JsonObject(payload))>>,
                  [thrown |-> FALSE, error |-> NoError, value |-> Undefined, sent |-> <<>>],
                  FALSE)

\* an authenticated object, and the payload the upstream holds for it: one
\* without a days member, or one of up to MaxDays days
InitTimetable ==
    /\ calls = [c \in Callers |-> NoCall]
    /\ env \in Envs \ {"none"}
    /\ insts = [s \in Slots |-> IF s = 1 THEN AuthenticatedAPI ELSE NoInst]
    /\ api = 1
    /\ globalAPIInstance = 0
    /\ globalConfigHash = Null
    /\ \/ Upstream(TimetableData(Undefined))
       \/ \E k \in 0..MaxDays : \E shape \in DayShapes(k) :
             \E es \in [1..EntriesUpTo(shape[1], k) -> GridEntries] :
                Upstream(TimetablePayload(k, shape, es))

Absent == [t |-> "absent"]

\* the options objects a caller passes: each member there or not
ProcessOptions ==
    {[skipCancelled |-> a, includeNotes |-> b] :
        a \in {Absent, Bool(TRUE)}, b \in {Absent, Bool(FALSE)}}

\* api.getTimetableData(startDate, endDate) on the payload
FetchTimetable(now) ==
    /\ lastOp.op = "upstream"
    /\ CallGetTimetableData(formatDateForAPI(now), formatDateForAPI(AddDays(now, 7)), Null,
                            lastOp.answers[1])

\* the timetableData a caller hands to processTimetableData: what
\* getTimetableData has just returned, or null or an object without days of
\* its own
TimetableArgs ==
    IF lastOp.op = "getTimetableData" /\ ~lastOp.thrown THEN {lastOp.value}
    ELSE IF lastOp.op = "upstream" THEN {Null, TimetableData(Undefined)}
    ELSE {}

\* api.processTimetableData(timetableData, options)
CallProcessTimetableData(timetableData, options) ==
    /\ timetableData \in TimetableArgs
    /\ \E r \in {processTimetableData(insts[api], timetableData, options)} :
        /\ insts' = [insts EXCEPT ![api] = r.self]
        /\ lastOp' = [summary |-> r.summary]
                        @@ Call("processTimetableData", api, NoConfig, <<timetableData, options>>,
                                lastOp.answers, r, FALSE)
    /\ UNCHANGED <<env, api, globalAPIInstance, globalConfigHash, calls>>

NextTimetable ==
    \/ \E now \in HomeworkClock : FetchTimetable(now)
    \/ \E timetableData \in TimetableArgs, options \in ProcessOptions :
          CallProcessTimetableData(timetableData, options)

SpecTimetable == InitTimetable /\ [][NextTimetable]_vars

\* the configs of a script that fetches on the cached instance: the same
\* account with one resource id or another
FetchConfigs == {BaseConfig, [BaseConfig EXCEPT !.resourceId = Str(<<"r", "2">>)]}

\* A script that obtains its WebUntisAPI object from the instance manager
\* and fetches homework and timetable on it
NextCacheFetch ==
    \/ \E config \in FetchConfigs, p \in CacheAuthResponses : CallGetInstance(config, p[1], p[2])
    \/ \E now \in HomeworkClock, resp \in HomeworkResponses : CallGetHomework(now, resp)
    \/ \E now \in HomeworkClock, days \in DayCounts, onlyIncomplete \in BOOLEAN,
          resp \in HomeworkResponses :
          CallGetHomeworkList(now, days, onlyIncomplete, FALSE, resp)
    \/ \E now \in HomeworkClock, resourceId \in ResourceIdArgs, resp \in TimetableResponses :
          CallGetTimetableData(now, AddDays(now, 7), resourceId, resp)
    \/ \E timetableData \in TimetableArgs, options \in ProcessOptions :
          CallProcessTimetableData(timetableData, options)

SpecCacheFetch == Init /\ [][NextCacheFetch]_vars

\* ------------------------------------------------------------------------
\* The transport wrapper and its three callers on an authenticated object,
\* over the status codes an upstream may answer with
\* ------------------------------------------------------------------------
StatusCodes == {199, 200, 201, 204, 299, 300, 302, 401, 404, 500}

TransportRpcResponses ==
    {TransportRaise}
      \cup {Http(status, b) : status \in StatusCodes,
                              b \in {UnparsableBody, RpcObject(FALSE, ResultA)}}
TransportHomeworkResponses ==
    {TransportRaise}
      \cup {Http(status, b) : status \in StatusCodes,
                              b \in {UnparsableBody, JsonObject(HomeworkPayload)}}
TransportTimetableResponses ==
    {TransportRaise}
      \cup {Http(status, b) : status \in StatusCodes,
                              b \in {UnparsableBody, JsonObject(TimetableData(Arr(<<>>)))}}

InitTransport ==
    /\ calls = [c \in Callers |-> NoCall]
    /\ env \in Envs
    /\ insts = [s \in Slots |-> IF s = 1 THEN AuthenticatedAPI ELSE NoInst]
    /\ api = 1
    /\ globalAPIInstance = 0
    /\ globalConfigHash = Null
    /\ lastOp = Call("new", 1, BaseConfig, <<>>, <<>>,
                     [thrown |-> FALSE, error |-> NoError, value |-> Undefined, sent |-> <<>>],
                     TRUE)

\* what makeFetch hands back, as a call outcome
makeFetchOutcome(self, f) ==
    IF f.thrown THEN [response |-> Undefined] @@ Thrown(self, f.error, <<>>)
    ELSE [response |-> f.response] @@ Returned(self, Undefined, <<>>)

\* api.makeFetch(url, options)
CallMakeFetch(resp) ==
    /\ env = "none" => resp = TransportRaise
    /\ \E r \in {makeFetchOutcome(insts[api], makeFetch(resp))} :
        /\ insts' = [insts EXCEPT ![api] = r.self]
        /\ lastOp' = [response |-> r.response]
                        @@ Call("makeFetch", api, NoConfig, <<>>, <<resp>>, r, FALSE)
    /\ UNCHANGED <<env, api, globalAPIInstance, globalConfigHash, calls>>

\* api.makeRequest(method, params)
CallMakeRequest(method, resp) ==
    /\ \E r \in {makeRequest(insts[api], method, resp)} :
        /\ Answered(r, method, resp)
        /\ insts' = [insts EXCEPT ![api] = r.self]
        /\ lastOp' = Call("makeRequest", api, NoConfig, <<method>>, <<resp>>, r, FALSE)
    /\ UNCHANGED <<env, api, globalAPIInstance, globalConfigHash, calls>>

\* api.getTimetableDataForPeriod(startDate, endDate, studentId)
CallGetTimetableDataForPeriod(startDate, endDate, studentId, resp) ==
    /\ \E r \in {getTimetableDataForPeriod(insts[api], startDate, endDate, studentId, resp)} :
        /\ Answered(r, "timetable", resp)
        /\ insts' = [insts EXCEPT ![api] = r.self]
        /\ lastOp' = Call("getTimetableDataForPeriod", api, NoConfig,
                          <<startDate, endDate, studentId>>, <<resp>>, r, FALSE)
    /\ UNCHANGED <<env, api, globalAPIInstance, globalConfigHash, calls>>

NextTransport ==
    \/ \E resp \in TransportRpcResponses : CallMakeFetch(resp)
    \/ \E resp \in TransportRpcResponses : CallMakeRequest("getLatestImportTime", resp)
    \/ \E now \in HomeworkClock, resp \in TransportHomeworkResponses : CallGetHomework(now, resp)
    \/ \E now \in HomeworkClock, resp \in TransportTimetableResponses :
          CallGetTimetableDataForPeriod(formatDateForAPI(now), formatDateForAPI(AddDays(now, 7)),
                                        insts[api].config.resourceId, resp)

SpecTransport == InitTransport /\ [][NextTransport]_vars

\* ------------------------------------------------------------------------
\* GoogleAppsScript/WebUntis.gs: the synchronous twin of getHomework and
\* getHomeworkList
\* ------------------------------------------------------------------------
\* UrlFetchApp.fetch(url, options) without muteHttpExceptions: a failure
\* status makes the fetch itself throw
UrlFetchApp_fetch(resp) ==
    IF resp.kind = "raise"
    THEN [thrown |-> TRUE, error |-> Err("transport error", 0)]
    ELSE IF resp.status >= 400
    THEN [thrown |-> TRUE, error |-> Err("Request failed, returned code", resp.status)]
    ELSE [thrown |-> FALSE, error |-> NoError,
          response |-> [getResponseCode |-> resp.status, body |-> resp.body]]

\* WebUntis.gs getHomework once UrlFetchApp.fetch has come back with f
getHomeworkAnswered_gs(self, sent, f) ==
    IF f.thrown THEN Thrown(self, f.error, sent)
    ELSE IF f.response.getResponseCode # 200
    THEN Thrown(self, Err("HTTP error! status", f.response.getResponseCode), sent)
    ELSE IF f.response.body.json = "bad" THEN Thrown(self, Err("SyntaxError", 0), sent)
    ELSE IF f.response.body.json = "null" THEN Thrown(self, Err("TypeError", 0), sent)
    ELSE Returned(self,
                  IF Truthy(f.response.body.obj.data) THEN f.response.body.obj.data
                  ELSE f.response.body.obj,
                  sent)

\* WebUntis.gs getHomework
getHomework_gs(self, startDate, endDate, resp) ==
    IF ~Truthy(self.sessionId) THEN Thrown(self, NotAuthenticated, <<>>)
    ELSE getHomeworkAnswered_gs(
             self,
             <<Request("homework", self, <<startDate, endDate>>, self.sessionId,
                       IF Truthy(self.bearerToken) THEN self.bearerToken ELSE NoHeader)>>,
             UrlFetchApp_fetch(resp))

\* lessonMap = {}; lessonMap[l.id] = l.subject; lessonMap[id]: a property
\* key is the text of the value, and the last lesson with that key wins
RECURSIVE lessonMap_gs(_, _)
lessonMap_gs(lessons, id) ==
    IF lessons = <<>> THEN Undefined
    ELSE IF TemplateText(lessons[Len(lessons)].id) = TemplateText(id)
    THEN lessons[Len(lessons)].subject
    ELSE lessonMap_gs(SubSeq(lessons, 1, Len(lessons) - 1), id)

\* lessonMap[hw.lessonId] || hw.subject || 'Unknown Subject'
subjectName_gs(hw, lessons) ==
    IF Truthy(lessonMap_gs(lessons, hw.lessonId)) THEN lessonMap_gs(lessons, hw.lessonId)
    ELSE IF Truthy(hw.subject) THEN hw.subject
    ELSE UnknownSubject

\* WebUntis.gs getHomeworkList once getHomework has come back with r
getHomeworkListFrom_gs(r, filteredHomework, lessons) ==
    IF r.thrown THEN r
    ELSE IF Len(filteredHomework) = 0 THEN [r EXCEPT !.value = Null]
    ELSE [r EXCEPT !.value =
            Arr([i \in 1..Len(filteredHomework) |->
                    [subjectName |-> subjectName_gs(filteredHomework[i], lessons)]
                        @@ filteredHomework[i]])]

\* the filter and the sort of getHomeworkList
FilteredHomework(r, onlyIncomplete) ==
    IF r.thrown THEN <<>>
    ELSE SortByDue(IF onlyIncomplete
                   THEN SelectSeq(OrEmpty(r.value.homeworks), LAMBDA hw : ~Truthy(hw.completed))
                   ELSE OrEmpty(r.value.homeworks))

LessonsOf(r) == IF r.thrown THEN <<>> ELSE OrEmpty(r.value.lessons)

\* WebUntis.gs getHomeworkList
getHomeworkList_gs(self, now, days, onlyIncomplete, excludeToday, resp) ==
    LET startDate == IF excludeToday THEN AddDays(now, 1) ELSE now
        future == AddDays(startDate, days)
    IN  \* one evaluation of getHomework feeds the three uses
        LET r == getHomework_gs(self, formatDate(startDate), formatDate(future), resp)
        IN  getHomeworkListFrom_gs(r, FilteredHomework(r, onlyIncomplete), LessonsOf(r))

\* ------------------------------------------------------------------------
\* The two variants side by side on one upstream answer
\* ------------------------------------------------------------------------
TextLessonId == Str(<<"1", "0">>)

VariantHomeworks ==
    {Homework(1, 10, 20250203, Bool(FALSE), Str(<<"a">>), Undefined),
     [Homework(2, 10, 20250131, Bool(FALSE), Str(<<"b">>), Str(<<"E">>))
         EXCEPT !.lessonId = TextLessonId],
     Homework(3, 11, 20250131, Bool(TRUE), Undefined, Str(<<"E">>))}

VariantHomeworkLists ==
    UNION {{hs \in [1..n -> VariantHomeworks] : \A i, j \in 1..n : i # j => hs[i] # hs[j]} :
           n \in 0..2}

VariantLessonLists ==
    {Undefined,
     Arr(<<Lesson(10, Str(<<"M">>))>>),
     Arr(<<[Lesson(10, Str(<<"M">>)) EXCEPT !.id = TextLessonId]>>),
     Arr(<<Lesson(10, Str(<<"M">>)), [Lesson(10, Str(<<"D">>)) EXCEPT !.id = TextLessonId]>>)}

VariantStatusCodes == {200, 201, 302, 404, 500}

InitVariants ==
    /\ calls = [c \in Callers |-> NoCall]
    /\ env \in Envs \ {"none"}
    /\ insts = [s \in Slots |-> IF s = 1 THEN AuthenticatedAPI ELSE NoInst]
    /\ api = 1
    /\ globalAPIInstance = 0
    /\ globalConfigHash = Null
    /\ \E hs \in VariantHomeworkLists, ls \in VariantLessonLists, status \in VariantStatusCodes :
          lastOp = Call("upstream", 0, NoConfig, <<>>,
                        <<Http(status, JsonObject(HomeworkData(Undefined, Arr(hs), ls)))>>,
                        [thrown |-> FALSE, error |-> NoError, value |-> Undefined, sent |-> <<>>],
                        FALSE)

\* what a variant's call came to
VariantOutcome(r) == [thrown |-> r.thrown, error |-> r.error, value |-> r.value]

\* api.getHomeworkList(days, onlyIncomplete, excludeToday) of WebUntis.js and
\* of WebUntis.gs, each answered with the upstream's answer
CompareGetHomeworkList(now, days, onlyIncomplete, excludeToday) ==
    /\ lastOp.op = "upstream"
    /\ \E r \in {getHomeworkList(insts[api], now, days, onlyIncomplete, excludeToday,
                                  lastOp.answers[1])},
          g \in {getHomeworkList_gs(insts[api], now, days, onlyIncomplete, excludeToday,
                                     lastOp.answers[1])} :
        /\ insts' = [insts EXCEPT ![api] = r.self]
        /\ lastOp' = [gs |-> VariantOutcome(g)]
                        @@ Call("getHomeworkList", api, NoConfig,
                                <<now, days, onlyIncomplete, excludeToday>>, lastOp.answers,
                                r, FALSE)
    /\ UNCHANGED <<env, api, globalAPIInstance, globalConfigHash, calls>>

NextVariants ==
    \E now \in HomeworkClock, days \in DayCounts, onlyIncomplete \in BOOLEAN :
        CompareGetHomeworkList(now, days, onlyIncomplete, FALSE)

SpecVariants == InitVariants /\ [][NextVariants]_vars

\* ------------------------------------------------------------------------
\* getWebUntisApiInstance calls that are not awaited one after the other:
\* a call runs from one await to the next, and the calls of other callers
\* run in between
\* ------------------------------------------------------------------------
\* this.sessionId = response.result.sessionId; personId; personType
storeSession(self, result) ==
    [self EXCEPT !.sessionId = result.sessionId,
                 !.personId = result.personId,
                 !.personType = result.personType]

AsyncRpcResponses ==
    {TransportRaise, Http(500, UnparsableBody), Http(200, RpcObject(FALSE, Null)),
     Http(200, RpcObject(FALSE, ResultA))}
AsyncTokenResponses == {TransportRaise, Http(200, [text |-> <<"T">>])}

InitAsync ==
    /\ env \in Envs
    /\ insts = [s \in Slots |-> NoInst]
    /\ api = 0
    /\ globalAPIInstance = 0
    /\ globalConfigHash = Null
    /\ lastOp = [op |-> "none", inst |-> 0, config |-> NoConfig, args |-> <<>>,
                 answers |-> <<>>,
                 thrown |-> FALSE, error |-> NoError, value |-> Undefined, sent |-> <<>>,
                 created |-> FALSE]
    /\ calls = [c \in Callers |-> NoCall]

\* caller c calls getWebUntisApiInstance(config): the call runs to its
\* return, or constructs the instance (in slot c), stores it and the
\* fingerprint, and stops at the await of authenticate's request
AsyncEnter(c, config) ==
    /\ calls[c].pc = "idle"
    /\ IF needsNewInstance(World, ConfigHash(config))
       THEN /\ insts' = [insts EXCEPT ![c] = WebUntisAPI(config, c)]
            /\ globalAPIInstance' = c
            /\ globalConfigHash' = ConfigHash(config)
            /\ calls' = [calls EXCEPT ![c] = [pc |-> "awaitAuthenticate", target |-> c, result |-> 0]]
       ELSE /\ calls' = [calls EXCEPT ![c] = [pc |-> "returned", target |-> 0,
                                              result |-> globalAPIInstance]]
            /\ UNCHANGED <<insts, globalAPIInstance, globalConfigHash>>
    /\ UNCHANGED <<env, api, lastOp>>

\* the authenticate request of caller c's instance is answered: the session
\* fields are stored and the call stops at the await of the token request,
\* or authenticate returns false and the call throws 'Authentication failed'
AsyncAuthenticateAnswered(c, rpc) ==
    /\ calls[c].pc = "awaitAuthenticate"
    /\ \E r \in {makeRequest(insts[calls[c].target], "authenticate", rpc)} :
        /\ Answered(r, "authenticate", rpc)
        /\ IF ~r.thrown /\ Truthy(r.value.result)
           THEN /\ insts' = [insts EXCEPT ![calls[c].target] = storeSession(r.self, r.value.result)]
                /\ calls' = [calls EXCEPT ![c].pc = "awaitToken"]
           ELSE /\ calls' = [calls EXCEPT ![c].pc = "thrown"]
                /\ UNCHANGED insts
    /\ UNCHANGED <<env, api, globalAPIInstance, globalConfigHash, lastOp>>

\* the token request of caller c's instance is answered: authenticate
\* returns true and the call returns globalAPIInstance as it is now
AsyncTokenAnswered(c, tok) ==
    /\ calls[c].pc = "awaitToken"
    /\ \E b \in {getBearerToken(insts[calls[c].target], tok)} :
        /\ Answered(b, "token", tok)
        /\ insts' = [insts EXCEPT ![calls[c].target] = b.self]
    /\ calls' = [calls EXCEPT ![c].pc = "returned", ![c].result = globalAPIInstance]
    /\ UNCHANGED <<env, api, globalAPIInstance, globalConfigHash, lastOp>>

\* caller c fetches homework on the instance its call returned
AsyncFetch(c, now, resp) ==
    /\ calls[c].pc = "returned"
    /\ \E r \in {getHomework(insts[calls[c].result], formatDate(now),
                              formatDate(AddDays(now, 7)), resp)} :
        /\ Answered(r, "homework", resp)
        /\ insts' = [insts EXCEPT ![calls[c].result] = r.self]
        /\ lastOp' = Call("getHomework", calls[c].result, NoConfig, <<now>>, <<resp>>, r, FALSE)
    /\ calls' = [calls EXCEPT ![c].pc = "fetched"]
    /\ UNCHANGED <<env, api, globalAPIInstance, globalConfigHash>>

NextAsync ==
    \/ \E c \in Callers : AsyncEnter(c, BaseConfig)
    \/ \E c \in Callers, rpc \in AsyncRpcResponses : AsyncAuthenticateAnswered(c, rpc)
    \/ \E c \in Callers, tok \in AsyncTokenResponses : AsyncTokenAnswered(c, tok)
    \/ \E c \in Callers, now \in HomeworkClock, resp \in HomeworkResponses :
          AsyncFetch(c, now, resp)

SpecAsync == InitAsync /\ [][NextAsync]_vars

\* ------------------------------------------------------------------------
\* Properties
\* ------------------------------------------------------------------------
AuthFields == {"school", "username", "password", "server"}

Is2xx(resp) == resp.kind = "http" /\ resp.status >= 200 /\ resp.status < 300

\* the answer is a JSON object that carries a result
CarriesResult(rpc) ==
    rpc.kind = "http" /\ rpc.body.json = "object" /\ Truthy(rpc.body.result)

\* the answer is a JSON object without a result
LacksResult(rpc) ==
    rpc.kind = "http" /\ rpc.body.json = "object" /\ ~Truthy(rpc.body.result)

\* the answer is one makeRequest rejects
RejectedAnswer(rpc) ==
    \/ rpc.kind = "raise"
    \/ ~Is2xx(rpc)
    \/ rpc.body.json # "object"
    \/ rpc.body.hasError

\* the authenticate request was answered with a result that makeRequest accepts
AuthAccepted(rpc) == env # "none" /\ ~RejectedAnswer(rpc) /\ CarriesResult(rpc)

\* the token request was answered with a usable token
TokenDelivered(tok) == env # "none" /\ Is2xx(tok) /\ trim(tok.body.text) # <<>>

\* C1 (session reuse): when getWebUntisApiInstance has returned an instance
\* for config c and is called again, next, with a config equal to c in school,
\* username, password and server while the cached instance has a sessionId,
\* the second call returns the very same, untouched instance and sends no
\* authenticate request; the two calls together send exactly one authenticate
\* request when the first one created the instance.
C1_SessionReuse ==
    [][ ( /\ lastOp.op = "getInstance" /\ ~lastOp.thrown
          /\ lastOp'.op = "getInstance" /\ IsConfig(lastOp'.config)
          /\ \A k \in AuthFields : lastOp'.config[k] = lastOp.config[k]
          /\ Truthy(insts[globalAPIInstance].sessionId) )
        => ( /\ ~lastOp'.thrown /\ ~lastOp'.created
             /\ lastOp'.value = lastOp.value
             /\ globalAPIInstance' = globalAPIInstance
             /\ insts'[globalAPIInstance'] = insts[globalAPIInstance]
             /\ Count(lastOp'.sent, "authenticate") = 0
             /\ Count(lastOp.sent, "authenticate") + Count(lastOp'.sent, "authenticate")
                  = IF lastOp.created THEN 1 ELSE 0 ) ]_vars

\* a call has just been served from the cache
C1_Witness ==
    /\ lastOp.op = "getInstance" /\ ~lastOp.thrown /\ ~lastOp.created
    /\ lastOp.sent = <<>>
    /\ api = globalAPIInstance /\ api = lastOp.value
    /\ Truthy(insts[api].sessionId)

\* C2 (cache miss): whenever getWebUntisApiInstance is called with a config
\* and the cache is empty, or the config differs from the config of the cached
\* instance in school, username, password or server, or the cached instance
\* has no sessionId, the call constructs a new instance from that config and
\* sends exactly one authenticate request, for that instance; when it returns,
\* it returns the new instance, and the cache slot and fingerprint are those
\* of the new instance.
C2_CacheMiss ==
    [][ ( /\ lastOp'.op = "getInstance" /\ IsConfig(lastOp'.config)
          /\ \/ globalAPIInstance = 0
             \/ \E k \in AuthFields :
                   lastOp'.config[k] # insts[globalAPIInstance].config[k]
             \/ ~Truthy(insts[globalAPIInstance].sessionId) )
        => ( /\ lastOp'.created
             /\ Count(lastOp'.sent, "authenticate") = 1
             /\ lastOp'.sent[1].req = "authenticate"
             /\ lastOp'.sent[1].inst = globalAPIInstance'
             /\ insts'[globalAPIInstance'].config = lastOp'.config
             /\ ~lastOp'.thrown =>
                  /\ lastOp'.value = globalAPIInstance'
                  /\ api' = globalAPIInstance'
                  /\ globalConfigHash' = ConfigHash(lastOp'.config) ) ]_vars

\* a second instance has just been created, for a config with another server,
\* while the script still held the instance of an earlier call
C2_Witness ==
    /\ lastOp.op = "getInstance" /\ lastOp.created /\ ~lastOp.thrown
    /\ lastOp.value = 2
    /\ lastOp.config.server # BaseConfig.server
    /\ \A k \in AuthFields \ {"server"} : lastOp.config[k] = BaseConfig[k]

\* C3 (as claimed): after logout on an instance that had a sessionId, the
\* fields sessionId, personId, personType and bearerToken are all null,
\* whatever the upstream answered.
C3_LogoutAlwaysClears ==
    [][ (lastOp'.op = "logout" /\ Truthy(insts[api].sessionId))
        => ( /\ insts'[api].sessionId = Null
             /\ insts'[api].personId = Null
             /\ insts'[api].personType = Null
             /\ insts'[api].bearerToken = Null ) ]_vars

\* C4 (as claimed): authenticate reports success only with a sessionId
\* present afterwards, and after a reported failure the sessionId is null.
C4_AuthenticatedOnlyWithSessionId ==
    [][ lastOp'.op = "authenticate"
        => ( /\ lastOp'.value => insts'[api].sessionId \notin {Null, Undefined}
             /\ ~lastOp'.value => insts'[api].sessionId = Null ) ]_vars

\* C5: when the answer to the authenticate request is a JSON object without
\* a result, authenticate returns false, leaves sessionId, personId,
\* personType and bearerToken (the whole instance) as they were, and sends
\* no bearer-token request.
C5_NoResultNoSession ==
    [][ (lastOp'.op = "authenticate" /\ LacksResult(lastOp'.answers[1]))
        => ( /\ ~lastOp'.thrown /\ lastOp'.value = FALSE
             /\ insts'[api] = insts[api]
             /\ Count(lastOp'.sent, "token") = 0 ) ]_vars

\* authenticate on a fresh instance was answered 200 {} and reported failure
C5_Witness ==
    /\ lastOp.op = "authenticate"
    /\ lastOp.answers[1] = Http(200, RpcObject(FALSE, Undefined))
    /\ env # "none"
    /\ lastOp.value = FALSE
    /\ insts[api].sessionId = Null

\* C6: authenticate never raises; when its request is answered by a non-2xx
\* status, a JSON-RPC error, an unparsable body or a transport exception, or
\* the environment has no fetch implementation, it returns false.
C6_AuthenticateNeverRaises ==
    lastOp.op = "authenticate"
    => ( /\ ~lastOp.thrown
         /\ lastOp.value \in BOOLEAN
         /\ (env = "none" \/ RejectedAnswer(lastOp.answers[1])) => lastOp.value = FALSE )

\* authenticate has met a transport exception
C6_Witness ==
    /\ lastOp.op = "authenticate"
    /\ env # "none"
    /\ lastOp.answers[1] = TransportRaise
    /\ lastOp.value = FALSE

\* the data-fetch operations
FetchOps ==
    {"getHomework", "getTodaysEvents", "getWeekEvents", "getHomeworkList",
     "getFormattedHomework", "getTimetableData"}

C8_FetchRequiresSession ==
    [][ (lastOp'.op \in FetchOps /\ insts[api].sessionId = Null)
        => ( /\ lastOp'.thrown
             /\ lastOp'.error = NotAuthenticated
             /\ lastOp'.sent = <<>>
             /\ insts' = insts ) ]_vars

\* getTimetableData has just been refused on an instance without a session
C8_Witness ==
    /\ lastOp.op = "getTimetableData"
    /\ lastOp.thrown /\ lastOp.error = NotAuthenticated
    /\ lastOp.sent = <<>>
    /\ insts[api].sessionId = Null

\* C9: a getWebUntisApiInstance call without a config throws 'Config
\* parameter is required' and touches neither the cache nor the network; a
\* call that creates an instance whose authenticate fails throws
\* 'Authentication failed'; a call that throws hands no instance to the caller.
C9_AuthFailureIsFatal ==
    [][ lastOp'.op = "getInstance"
        => ( /\ ~IsConfig(lastOp'.config) =>
                  /\ lastOp'.thrown
                  /\ lastOp'.error.msg = "Config parameter is required"
                  /\ lastOp'.sent = <<>>
                  /\ UNCHANGED <<insts, api, globalAPIInstance, globalConfigHash, calls>>
             /\ (IsConfig(lastOp'.config) /\ lastOp'.created
                   /\ ~AuthAccepted(lastOp'.answers[1])) =>
                  /\ lastOp'.thrown
                  /\ lastOp'.error.msg = "Authentication failed"
             /\ lastOp'.thrown => api' = api ) ]_vars

\* a call has created an instance and thrown 'Authentication failed'
C9_Witness ==
    /\ lastOp.op = "getInstance" /\ lastOp.created /\ lastOp.thrown
    /\ lastOp.error.msg = "Authentication failed"
    /\ globalAPIInstance # 0 /\ api # globalAPIInstance

\* C10: clearWebUntisApiInstance never raises and leaves globalAPIInstance
\* and globalConfigHash null, whether the cache was empty or the logout
\* succeeded or failed; the next getWebUntisApiInstance call with a config
\* creates an instance and sends an authenticate request.
C10_ClearAlwaysEmpties ==
    [][ /\ lastOp'.op = "clear" =>
             /\ ~lastOp'.thrown
             /\ globalAPIInstance' = 0
             /\ globalConfigHash' = Null
        /\ (lastOp.op = "clear" /\ lastOp'.op = "getInstance" /\ IsConfig(lastOp'.config)) =>
             /\ lastOp'.created
             /\ Count(lastOp'.sent, "authenticate") = 1 ]_vars

\* the cache has been cleared although the logout request failed
C10_Witness ==
    /\ lastOp.op = "clear"
    /\ lastOp.sent # <<>>
    /\ api = lastOp.inst
    /\ Truthy(insts[api].sessionId)
    /\ globalAPIInstance = 0 /\ globalConfigHash = Null


\* C11: logout on an instance whose sessionId is null sends no request,
\* changes no field and returns true; and a logout that follows a logout
\* that returned true sends nothing.
C11_LogoutNoOp ==
    [][ /\ (lastOp'.op = "logout" /\ insts[api].sessionId = Null)
           => ( /\ lastOp'.sent = <<>>
                /\ insts' = insts
                /\ ~lastOp'.thrown /\ lastOp'.value = TRUE )
        /\ (lastOp.op = "logout" /\ lastOp.value = TRUE /\ lastOp'.op = "logout")
           => ( /\ lastOp'.sent = <<>>
                /\ lastOp'.value = TRUE
                /\ insts' = insts ) ]_vars

\* a second logout has just returned true without a request, on an instance
\* that the logout before it had cleared
C11_Witness ==
    /\ lastOp.op = "logout" /\ lastOp.value = TRUE /\ lastOp.sent = <<>>
    /\ insts[api].sessionId = Null
    /\ insts[api].personId = Null
    /\ env # "none"

\* the operations that make an upstream call other than the bearer-token one
UpstreamOps == FetchOps \cup {"authenticate", "logout", "checkUpcomingEvents"}

\* the answer is a transport error or a status outside 200..299
UpstreamFailed(resp) == resp.kind = "raise" \/ ~Is2xx(resp)

\* the call ended in a thrown Error or in the failure result false
Surfaced(call) ==
    call.thrown \/ (call.op \in {"authenticate", "logout"} /\ call.value = FALSE)

\* C12: whenever authenticate, logout, a fetch operation or
\* checkUpcomingEvents has sent its request and the request met a transport
\* error or a non-2xx status, the call throws or returns false: it never
\* returns a normal-looking value such as an empty list.
C12_NoFailureSwallowed ==
    [][ (lastOp'.op \in UpstreamOps /\ lastOp'.sent # <<>>
            /\ UpstreamFailed(lastOp'.answers[1]))
        => Surfaced(lastOp') ]_vars

\* ------------------------------------------------------------------------
\* The homework list and its report
\* ------------------------------------------------------------------------
\* the homeworks and lessons of the payload the call was answered with
PayloadHomeworks == OrEmpty(lastOp.answers[1].body.obj.homeworks)
PayloadLessons == OrEmpty(lastOp.answers[1].body.obj.lessons)

Ids(list) == [i \in 1..Len(list) |-> list[i].id]
DueOn(list, dueDate) == SelectSeq(list, LAMBDA hw : hw.dueDate = dueDate)
Incomplete(list) == SelectSeq(list, LAMBDA hw : hw.completed = Bool(FALSE))

\* the homework the options keep
Kept(list, onlyIncomplete) == IF onlyIncomplete THEN Incomplete(list) ELSE list

\* getHomeworkList has returned
ListReturned == lastOp.op = "getHomeworkList" /\ ~lastOp.thrown

\* C13: the array getHomeworkList returns is in ascending order of dueDate,
\* and for every due date its records of that date are those of the filtered
\* payload, in the payload's order.
C13_StableSortByDueDate ==
    (ListReturned /\ lastOp.value # Null)
    => /\ \A i, j \in 1..Len(lastOp.value.v) :
             i < j => lastOp.value.v[i].dueDate.v <= lastOp.value.v[j].dueDate.v
       /\ \A k \in 1..Len(PayloadHomeworks) :
             Ids(DueOn(lastOp.value.v, PayloadHomeworks[k].dueDate))
               = Ids(DueOn(Kept(PayloadHomeworks, lastOp.args[3]), PayloadHomeworks[k].dueDate))
       /\ Len(lastOp.value.v) = Len(Kept(PayloadHomeworks, lastOp.args[3]))

\* homework 1 (due 20250203) came first in the payload, then 3 and 2 (both
\* due 20250131): the list has 3 and 2 first, in that order, then 1
C13_Witness ==
    /\ ListReturned
    /\ Ids(PayloadHomeworks) = <<Num(1), Num(3), Num(2)>>
    /\ lastOp.args[3] = FALSE
    /\ Ids(lastOp.value.v) = <<Num(3), Num(2), Num(1)>>

\* C14: getHomeworkList returns null exactly when the options keep no
\* homework of the payload; it never returns an empty array; with
\* onlyIncomplete every returned record has completed false, and without it
\* every homework of the payload is returned.
C14_NullIffNothingKept ==
    ListReturned
    => /\ (lastOp.value = Null) <=> (Len(Kept(PayloadHomeworks, lastOp.args[3])) = 0)
       /\ lastOp.value # Arr(<<>>)
       /\ lastOp.value # Null
          => /\ lastOp.args[3]
                => \A i \in 1..Len(lastOp.value.v) : lastOp.value.v[i].completed = Bool(FALSE)
             /\ ~lastOp.args[3]
                => /\ Len(lastOp.value.v) = Len(PayloadHomeworks)
                   /\ {lastOp.value.v[i].id : i \in 1..Len(lastOp.value.v)}
                        = {PayloadHomeworks[i].id : i \in 1..Len(PayloadHomeworks)}

\* the payload holds two homeworks, both completed, and getHomeworkList with
\* onlyIncomplete has returned null
C14_Witness ==
    /\ ListReturned
    /\ lastOp.args[3] = TRUE
    /\ Ids(PayloadHomeworks) = <<Num(2), Num(5)>>
    /\ lastOp.value = Null

\* a string with at least one character
NonEmptyText(x) == x.t = "string" /\ x.v # <<>>

\* the lessons of the response that have the id and a non-empty subject
SubjectsOf(lessons, id) ==
    {lessons[k].subject : k \in {k \in 1..Len(lessons) :
                                    lessons[k].id = id /\ NonEmptyText(lessons[k].subject)}}

\* C15: every record getHomeworkList returns has a non-empty string as
\* subjectName: the subject of the lesson of the response with the record's
\* lessonId when that is non-empty, or else the record's own subject when
\* that is non-empty, or else 'Unknown Subject'.
C15_SubjectNameFallback ==
    (ListReturned /\ lastOp.value # Null)
    => \A i \in 1..Len(lastOp.value.v) :
          /\ NonEmptyText(lastOp.value.v[i].subjectName)
          /\ IF SubjectsOf(PayloadLessons, lastOp.value.v[i].lessonId) # {}
             THEN lastOp.value.v[i].subjectName
                    \in SubjectsOf(PayloadLessons, lastOp.value.v[i].lessonId)
             ELSE IF NonEmptyText(lastOp.value.v[i].subject)
             THEN lastOp.value.v[i].subjectName = lastOp.value.v[i].subject
             ELSE lastOp.value.v[i].subjectName
                    = Str(<<"U", "n", "k", "n", "o", "w", "n", " ", "S", "u", "b", "j", "e", "c", "t">>)

\* one list with the three tiers: homework 1 named after lesson 10, homework
\* 2 after its own subject (lesson 11 has an empty one), homework 4 unknown
C15_Witness ==
    /\ ListReturned
    /\ lastOp.value # Null
    /\ Len(PayloadLessons) = 3
    /\ \E i, j, k \in 1..Len(lastOp.value.v) :
          /\ lastOp.value.v[i].id = Num(1) /\ lastOp.value.v[i].subjectName = Str(<<"M">>)
          /\ lastOp.value.v[j].id = Num(2) /\ lastOp.value.v[j].subjectName = Str(<<"E">>)
          /\ lastOp.value.v[k].id = Num(4) /\ lastOp.value.v[k].subjectName = UnknownSubject

\* the list is null or an empty array
EmptyList(list) == list = Null \/ list = Arr(<<>>)

\* C16: formatHomework returns exactly 'No open homework found for the next
\* N days.' ('No homework ...' without onlyIncomplete) for a null or empty
\* list; with onlyIncomplete its output contains 'No open homework' exactly
\* when the list is null or empty; and sendHomeworkEmail sends its email
\* exactly when the payload holds homework that is not completed.
C16_EmptyReportSentinel ==
    /\ lastOp.op = "formatHomework"
       => /\ EmptyList(lastOp.args[1])
             => lastOp.value
                  = Str((IF lastOp.args[3] THEN <<"N", "o", " ", "o", "p", "e", "n", " ", "h", "o", "m", "e", "w", "o", "r", "k">> ELSE <<"N", "o", " ", "h", "o", "m", "e", "w", "o", "r", "k">>)
                        \o <<" ", "f", "o", "u", "n", "d", " ", "f", "o", "r", " ", "t", "h", "e", " ", "n", "e", "x", "t", " ">>
                        \o NumberToString(lastOp.args[2]) \o <<" ", "d", "a", "y", "s", ".">>)
          /\ lastOp.args[3]
             => (includes(lastOp.value.v, <<"N", "o", " ", "o", "p", "e", "n", " ", "h", "o", "m", "e", "w", "o", "r", "k">>)
                   <=> EmptyList(lastOp.args[1]))
    /\ (lastOp.op = "sendHomeworkEmail" /\ ~lastOp.thrown)
       => (lastOp.value = TRUE <=> Len(Incomplete(PayloadHomeworks)) > 0)

\* ------------------------------------------------------------------------
\* The lessons of a timetable
\* ------------------------------------------------------------------------
ProcessRan == lastOp.op = "processTimetableData"

\* the days of the timetableData argument
RunDays ==
    IF lastOp.args[1] = Null \/ lastOp.args[1].days = Undefined THEN <<>>
    ELSE lastOp.args[1].days.v

SkipsCancelled == lastOp.args[2].skipCancelled = Bool(TRUE)

\* the day holds an array of grid entries
HasEntryArray(day) == day.gridEntries.t = "array"

\* the grid entries of the days, each with the date of its day, in day
\* order and entry order
RECURSIVE Flatten(_)
Flatten(days) ==
    IF days = <<>> THEN <<>>
    ELSE (IF HasEntryArray(Head(days))
          THEN [i \in 1..Len(Head(days).gridEntries.v) |->
                   [date |-> Head(days).date, entry |-> Head(days).gridEntries.v[i]]]
          ELSE <<>>)
         \o Flatten(Tail(days))

\* null, not an object, or an object without a duration
Malformed(entry) == entry.t # "object" \/ entry.duration = Undefined

Cancelled(entry) == entry.t = "object" /\ entry.status = Str(<<"C", "A", "N", "C", "E", "L", "L", "E", "D">>)

\* the entries a run is to emit: well-formed, and not cancelled when
\* cancelled entries are skipped
ToEmit(dated) == ~Malformed(dated.entry) /\ ~(SkipsCancelled /\ Cancelled(dated.entry))

\* the lessons the call returned, each as its date and its raw entry
EmittedLessons == IF lastOp.thrown \/ lastOp.value = Null THEN <<>> ELSE lastOp.value.v
Emitted == [i \in 1..Len(EmittedLessons) |->
               [date |-> EmittedLessons[i].date, entry |-> EmittedLessons[i].rawEntry]]

Occurrences(seq, x) == Cardinality({i \in 1..Len(seq) : seq[i] = x})

\* C17: with skipCancelled no emitted lesson has status 'CANCELLED', and a
\* payload whose entries are all cancelled yields null; without it every
\* well-formed cancelled entry is emitted with isCancelled true; and under
\* either setting the non-cancelled lessons emitted are those of the
\* well-formed non-cancelled entries of the payload.
C17_CancelledHandling ==
    ProcessRan
    => /\ SkipsCancelled
          => /\ \A i \in 1..Len(EmittedLessons) : EmittedLessons[i].status # Str(<<"C", "A", "N", "C", "E", "L", "L", "E", "D">>)
             /\ (\A k \in 1..Len(Flatten(RunDays)) : Cancelled(Flatten(RunDays)[k].entry))
                => (~lastOp.thrown /\ lastOp.value = Null)
       /\ ~SkipsCancelled
          => \A k \in 1..Len(Flatten(RunDays)) :
                (~Malformed(Flatten(RunDays)[k].entry) /\ Cancelled(Flatten(RunDays)[k].entry))
                => \E i \in 1..Len(EmittedLessons) :
                      /\ Emitted[i] = Flatten(RunDays)[k]
                      /\ EmittedLessons[i].isCancelled = Bool(TRUE)
       /\ SelectSeq(Emitted, LAMBDA dated : ~Cancelled(dated.entry))
            = SelectSeq(Flatten(RunDays),
                        LAMBDA dated : ~Malformed(dated.entry) /\ ~Cancelled(dated.entry))

\* C18: processTimetableData never throws; it counts one processing error
\* for every malformed entry (null, not an object, without a duration) and
\* emits every other entry that is not skipped as cancelled.
C18_PartialFailureTolerance ==
    ProcessRan
    => /\ ~lastOp.thrown
       /\ lastOp.summary.processingErrors
            = Len(SelectSeq(Flatten(RunDays), LAMBDA dated : Malformed(dated.entry)))
       /\ Emitted = SelectSeq(Flatten(RunDays), ToEmit)

\* the slot is absent, an empty array, or its first element has no current
\* object or no display name
LacksSlot(position) ==
    \/ position = Undefined
    \/ position = Arr(<<>>)
    \/ position.v[1].current = Undefined
    \/ position.v[1].current.displayName = Undefined

\* the slot has no first element with a current object that has a long name
LacksLongName(position) ==
    \/ position = Undefined
    \/ position = Arr(<<>>)
    \/ position.v[1].current = Undefined
    \/ position.v[1].current.longName = Undefined

\* the lessons built so far, of a run that threw as well
BuiltLessons == lastOp.summary.lessons

\* a well-formed entry that lacks a slot and is not skipped as cancelled
LacksSomeSlot(dated) ==
    /\ ToEmit(dated)
    /\ \/ LacksSlot(dated.entry.position1)
       \/ LacksSlot(dated.entry.position2)
       \/ LacksSlot(dated.entry.position3)

\* an entry with a duration that lacks a slot makes no error: none is
\* counted for it, a throw comes from a null entry, and a run that does not
\* throw emits one record for each such entry
SlotlessEntriesEmitted ==
    /\ lastOp.summary.processingErrors
         <= Len(SelectSeq(Flatten(RunDays), LAMBDA dated : Malformed(dated.entry)))
    /\ lastOp.thrown
       => \E k \in 1..Len(Flatten(RunDays)) : Flatten(RunDays)[k].entry = Null
    /\ ~lastOp.thrown
       => \A k \in 1..Len(Flatten(RunDays)) :
             LacksSomeSlot(Flatten(RunDays)[k])
             => Occurrences(Emitted, Flatten(RunDays)[k])
                  = Occurrences(Flatten(RunDays), Flatten(RunDays)[k])

\* the names of the lesson are the sentinels where its entry lacks the slot
SentinelNames(lesson) ==
    /\ LacksSlot(lesson.rawEntry.position1) => lesson.teacher = Str(<<"U", "n", "k", "n", "o", "w", "n", " ", "T", "e", "a", "c", "h", "e", "r">>)
    /\ LacksSlot(lesson.rawEntry.position2) => lesson.subject = Str(<<"U", "n", "k", "n", "o", "w", "n", " ", "S", "u", "b", "j", "e", "c", "t">>)
    /\ LacksSlot(lesson.rawEntry.position3) => lesson.room = Str(<<"U", "n", "k", "n", "o", "w", "n", " ", "R", "o", "o", "m">>)

UsableResourceId(x) == Truthy(x) /\ x # PlaceholderResourceId

ResourceIdRequired(call) ==
    /\ call.thrown
    /\ call.error = Err("Student Resource ID is required for timetable access!", 0)
    /\ call.sent = <<>>

\* the one timetable request of the call asks for resource id x
QueriesResource(call, x) ==
    /\ Len(call.sent) = 1
    /\ call.sent[1].req = "timetable"
    /\ call.sent[1].params[3] = x

\* C22: getTimetableData on an instance without a session raises 'Not
\* authenticated' whatever the resource id; on an authenticated instance it
\* queries the resourceId argument when one is given and config.resourceId
\* otherwise, and when the id so chosen is missing or the placeholder it
\* raises 'Student Resource ID is required' and sends no request.
C22_ResourceIdRequired ==
    [][ lastOp'.op = "getTimetableData"
        => ( /\ ~Truthy(insts[api].sessionId)
                  => (lastOp'.thrown /\ lastOp'.error = NotAuthenticated /\ lastOp'.sent = <<>>)
             /\ (Truthy(insts[api].sessionId) /\ UsableResourceId(lastOp'.args[3]))
                  => QueriesResource(lastOp', lastOp'.args[3])
             /\ (Truthy(insts[api].sessionId) /\ ~Truthy(lastOp'.args[3])
                    /\ UsableResourceId(insts[api].config.resourceId))
                  => QueriesResource(lastOp', insts[api].config.resourceId)
             /\ (Truthy(insts[api].sessionId) /\ ~Truthy(lastOp'.args[3])
                    /\ ~UsableResourceId(insts[api].config.resourceId))
                  => ResourceIdRequired(lastOp')
             /\ (Truthy(insts[api].sessionId) /\ lastOp'.args[3] = PlaceholderResourceId)
                  => ResourceIdRequired(lastOp') ) ]_vars

\* an authenticated instance whose config has no resourceId has refused a
\* getTimetableData without a resourceId argument
C22_Witness ==
    /\ lastOp.op = "getTimetableData"
    /\ Truthy(insts[api].sessionId)
    /\ lastOp.args[3] = Null
    /\ insts[api].config.resourceId = Undefined
    /\ ResourceIdRequired(lastOp)

\* the calls that go through makeFetch and test response.ok
TransportCallers == {"makeRequest", "getHomework", "getTimetableDataForPeriod"}

\* C23: with a transport, makeFetch does not raise on an HTTP answer and its
\* response has ok true exactly when 200 <= status < 300; makeRequest,
\* getHomework and getTimetableDataForPeriod raise an error carrying the
\* status code exactly when ok is false; without a transport makeFetch raises
\* the 'not supported' error.
C23_TransportNormalization ==
    /\ (lastOp.op = "makeFetch" /\ lastOp.answers[1].kind = "http")
         => /\ ~lastOp.thrown
            /\ lastOp.response.status = lastOp.answers[1].status
            /\ lastOp.response.ok
                  <=> (200 <= lastOp.answers[1].status /\ lastOp.answers[1].status < 300)
    /\ (lastOp.op \in TransportCallers /\ lastOp.answers[1].kind = "http")
         => ( (lastOp.thrown /\ lastOp.error.status = lastOp.answers[1].status)
                <=> ~(200 <= lastOp.answers[1].status /\ lastOp.answers[1].status < 300) )
    /\ (lastOp.op \in TransportCallers \cup {"makeFetch"} /\ env = "none")
         => /\ lastOp.thrown
            /\ lastOp.error
                 = Err("No fetch implementation available. This environment is not supported.", 0)

\* makeRequest has been answered 299 with a parsable body and has returned it
C23_Witness ==
    /\ lastOp.op = "makeRequest"
    /\ lastOp.answers[1] = Http(299, RpcObject(FALSE, ResultA))
    /\ ~lastOp.thrown
    /\ lastOp.value = RpcObject(FALSE, ResultA)

\* C24: on every upstream answer (status code, homework and lesson ids
\* numeric or text) and every onlyIncomplete option, getHomeworkList of
\* WebUntis.gs and of WebUntis.js both raise or both return, and return the
\* same value: the same null or the same records in the same order with the
\* same subjectName.
C24_VariantsEquivalent ==
    (lastOp.op = "getHomeworkList" /\ "gs" \in DOMAIN lastOp)
    => /\ lastOp.gs.thrown = lastOp.thrown
       /\ lastOp.gs.value = lastOp.value

\* C25: when getWebUntisApiInstance calls for one config interleave at their
\* awaits, starting from an empty cache, every call that returns hands back
\* an instance whose sessionId is set, and a fetch on the returned instance
\* does not fail with 'Not authenticated'.
C25_ReturnedInstanceAuthenticated ==
    /\ \A c \in Callers :
          calls[c].pc = "returned" => Truthy(insts[calls[c].result].sessionId)
    /\ (lastOp.op = "getHomework" /\ lastOp.thrown) => lastOp.error # NotAuthenticated

\* the operations that read data
ReadOps == {"getHomework", "getHomeworkList", "getTimetableData", "processTimetableData"}

\* the session state of an object
SessionState(o) == <<o.sessionId, o.personId, o.personType, o.bearerToken>>

\* C26: getHomework, getHomeworkList, getTimetableData and
\* processTimetableData leave sessionId, personId, personType and
\* bearerToken of their object, the cached instance and the cached
\* fingerprint as they were, whether they return or raise; a fetch sends at
\* most one request (exactly one for getHomework and getHomeworkList on an
\* object with a session) and processTimetableData none; and the
\* getWebUntisApiInstance call that follows a fetch that failed with an HTTP
\* status, with the config of the cached instance, returns the cached
\* instance and sends nothing.
C26_FetchesAreReadOnly ==
    [][ /\ lastOp'.op \in ReadOps
          => /\ SessionState(insts'[api]) = SessionState(insts[api])
             /\ api' = api
             /\ globalAPIInstance' = globalAPIInstance
             /\ globalConfigHash' = globalConfigHash
             /\ Len(lastOp'.sent) <= 1
             /\ lastOp'.op = "processTimetableData" => lastOp'.sent = <<>>
             /\ (lastOp'.op \in {"getHomework", "getHomeworkList"}
                   /\ Truthy(insts[api].sessionId))
                  => Len(lastOp'.sent) = 1
        /\ ( /\ lastOp.op \in ReadOps /\ lastOp.thrown /\ lastOp.error.status # 0
             /\ api = globalAPIInstance
             /\ lastOp'.op = "getInstance"
             /\ ConfigHash(lastOp'.config) = globalConfigHash )
          => /\ ~lastOp'.thrown
             /\ ~lastOp'.created
             /\ lastOp'.sent = <<>>
             /\ api' = globalAPIInstance
             /\ globalAPIInstance' = globalAPIInstance
             /\ insts' = insts ]_vars

\* a getHomework on the cached instance has been answered 500: the call has
\* raised and the instance still holds its session and its token
C26_Witness ==
    /\ lastOp.op = "getHomework"
    /\ lastOp.thrown /\ lastOp.error = Err("HTTP error! status", 500)
    /\ api # 0 /\ api = globalAPIInstance
    /\ insts[api].sessionId = ResultA.sessionId
    /\ Truthy(insts[api].bearerToken)

\* the fingerprint is null exactly when there is no cached instance, and is
\* otherwise the fingerprint of the cached instance's config
CacheConsistent ==
    /\ (globalConfigHash = Null) <=> (globalAPIInstance = 0)
    /\ globalAPIInstance # 0
         => globalConfigHash = ConfigHash(insts[globalAPIInstance].config)

AuthenticationFailed(call) ==
    call.op = "getInstance" /\ call.thrown /\ call.error.msg = "Authentication failed"

\* C27: in every state that getWebUntisApiInstance, clearWebUntisApiInstance,
\* authenticate and logout calls made one after the other can reach, the
\* cached fingerprint is null exactly when the cached instance is null and
\* otherwise is the fingerprint of the cached instance's config; a
\* getWebUntisApiInstance that raises 'Authentication failed' leaves its new
\* instance, without a session, in the cache, and the next call with the
\* same config constructs an instance and sends an authenticate request.
C27_CacheConsistency ==
    /\ []CacheConsistent
    /\ [][ /\ AuthenticationFailed(lastOp')
                => ( /\ lastOp'.created
                     /\ globalAPIInstance' # 0
                     /\ globalAPIInstance' = lastOp'.inst
                     /\ insts'[globalAPIInstance'].config = lastOp'.config
                     /\ ~Truthy(insts'[globalAPIInstance'].sessionId) )
           /\ ( AuthenticationFailed(lastOp) /\ lastOp'.op = "getInstance"
                  /\ IsConfig(lastOp'.config)
                  /\ ConfigHash(lastOp'.config) = ConfigHash(lastOp.config) )
                => ( /\ lastOp'.created
                     /\ Count(lastOp'.sent, "authenticate") = 1 ) ]_vars

\* a call has raised 'Authentication failed' while the script still holds an
\* instance of another config: the cache holds the new instance and its
\* fingerprint
C27_Witness ==
    /\ AuthenticationFailed(lastOp)
    /\ api # 0 /\ globalAPIInstance # 0 /\ api # globalAPIInstance
    /\ insts[api].config # insts[globalAPIInstance].config
    /\ insts[globalAPIInstance].sessionId = Null
    /\ globalConfigHash = ConfigHash(lastOp.config)

\* config names the account of the usable cached instance
SameAccount(config) ==
    /\ globalAPIInstance # 0
    /\ Truthy(insts[globalAPIInstance].sessionId)
    /\ \A k \in AuthFields : config[k] = insts[globalAPIInstance].config[k]

\* C28: a getWebUntisApiInstance call whose config differs from the cached
\* instance's config at most in resourceId returns the cached instance,
\* which keeps the config it was constructed with; a getTimetableData
\* without a resourceId argument that follows queries the resource id of
\* the cached instance's config, not the one of the config just passed.
C28_ResourceIdNotInFingerprint ==
    [][ /\ (lastOp'.op = "getInstance" /\ SameAccount(lastOp'.config))
            => ( /\ ~lastOp'.thrown
                 /\ ~lastOp'.created
                 /\ api' = globalAPIInstance
                 /\ globalAPIInstance' = globalAPIInstance
                 /\ insts'[api'].config = insts[globalAPIInstance].config )
        /\ ( lastOp.op = "getInstance" /\ ~lastOp.thrown /\ ~lastOp.created
               /\ lastOp.config.resourceId # insts[api].config.resourceId
               /\ lastOp'.op = "getTimetableData" /\ ~Truthy(lastOp'.args[3]) )
            => ( /\ QueriesResource(lastOp', insts[api].config.resourceId)
                 /\ lastOp'.sent[1].params[3] # lastOp.config.resourceId ) ]_vars

\* a call with another resource id has returned the cached instance, whose
\* config still names the first one
C28_Witness ==
    /\ lastOp.op = "getInstance" /\ ~lastOp.thrown /\ ~lastOp.created
    /\ api = globalAPIInstance
    /\ lastOp.config.resourceId = Str(<<"r", "2">>)
    /\ insts[api].config.resourceId = Str(<<"r", "1">>)

\* C29: a getWebUntisApiInstance call that replaces a cached instance with a
\* session sends no logout request, and the replaced instance, where the
\* script still holds it, keeps all its fields; no operation other than
\* logout and clearWebUntisApiInstance ever sends a logout request.
C29_ReplacementSendsNoLogout ==
    [][ /\ lastOp'.op \notin {"logout", "clear"} => Count(lastOp'.sent, "logout") = 0
        /\ ( lastOp'.op = "getInstance" /\ lastOp'.created
               /\ globalAPIInstance # 0 /\ Truthy(insts[globalAPIInstance].sessionId) )
            => ( /\ Count(lastOp'.sent, "logout") = 0
                 /\ \A i \in 1..Len(lastOp'.sent) : lastOp'.sent[i].inst = globalAPIInstance'
                 /\ (api = globalAPIInstance /\ api' = api) => insts'[api] = insts[api] ) ]_vars

\* a call for another account has replaced the cached instance and raised:
\* the script still holds the replaced instance with its session, and the
\* call sent the new instance's authenticate request and nothing else
C29_Witness ==
    /\ lastOp.op = "getInstance" /\ lastOp.created /\ lastOp.thrown
    /\ api # 0 /\ api # globalAPIInstance
    /\ Truthy(insts[api].sessionId)
    /\ ConfigHash(insts[api].config) # globalConfigHash
    /\ Len(lastOp.sent) = 1 /\ lastOp.sent[1].req = "authenticate"

\* C30: after any sequence of authenticate and logout calls on one instance,
\* an authenticate that returned true while its bearer-token request was not
\* answered with a token leaves bearerToken null; and every request of a
\* fetch carries the session cookie, and an Authorization header exactly
\* when the instance holds a bearerToken.
C30_TokenOfCurrentSession ==
    /\ (lastOp.op = "authenticate" /\ lastOp.value = TRUE
          /\ ~TokenDelivered(lastOp.answers[2]))
         => insts[api].bearerToken = Null
    /\ lastOp.op \in FetchOps
         => \A i \in 1..Len(lastOp.sent) :
               /\ lastOp.sent[i].cookie = insts[api].sessionId
               /\ (lastOp.sent[i].authorization # NoHeader) <=> Truthy(insts[api].bearerToken)

====
